---- MODULE Spec2Model ----
(***************************************************************************)
(* A model of the path-planning, scanning and geometry core of brisect:    *)
(*   brisect/analysis.py : dist_from_line, lst_dist_from_rect,             *)
(*                         fit_geometry_to_data                            *)
(*   brisect/helpers.py  : within_radius, grid_sweep_coords                *)
(*   brisect/scan.py     : linear_scan, domain_search, trace_perimeter,    *)
(*                         trace_line                                      *)
(*                                                                         *)
(* Lengths are integers.  A distance is kept as the fraction               *)
(* <<numerator, denominator>> of its square, so that no square root is     *)
(* needed; a denominator of 0 stands for the NaN that numpy returns for    *)
(* 0/0.  A rotation is the pair <<cos, sin>> of a quarter turn.            *)
(***************************************************************************)
EXTENDS Integers, Sequences, FiniteSets, TLC

VARIABLES
    call,       \* the pure function under test and its arguments
    ret,        \* [done, val]: whether it has been applied, and its result
    stage,      \* the actuator: number of axes, position, target of its move
    field,      \* the sensor: the magnitude it returns at each position
    log,        \* the actuator and sensor commands issued so far, in order
    ls,         \* the frame of linear_scan
    ds,         \* the frame of domain_search
    tr,         \* the frame of trace_perimeter or trace_line
    fault       \* the number of the hardware command that raises; 0: none does

pureVars == <<call, ret>>
hwVars   == <<stage, field, log>>
vars == <<call, ret, stage, field, log, ls, ds, tr, fault>>

(***************************************************************************)
(* Bounds of the model.                                                    *)
(***************************************************************************)
MaxCoord  == 2      \* points of the geometry checks lie in -1..MaxCoord
MaxSide   == 3      \* rectangle sides of the geometry checks: 1..MaxSide
MaxSep    == 3      \* grid separations: 1..MaxSep
MaxWidth  == 4      \* grid widths: 1..MaxWidth
MaxHeight == 4      \* grid heights: 1..MaxHeight
MaxEps    == 2      \* grid tolerances: 1..MaxEps
MaxPolls  == 3      \* busy polls of one linear_scan under a free actuator
MaxMag    == 2      \* magnitudes returned by a free sensor: 0..MaxMag
MaxSweep  == 3      \* sides of the domain swept by domain_search: 2..MaxSweep
MaxSpeed  == 2      \* distance an ideal stage covers between two polls: 1..MaxSpeed
MaxScans  == 12     \* calls of linear_scan followed within one call of a tracer
MaxRms    == 6      \* magnitudes given to the detection test: 0..MaxRms
MaxFault  == 12     \* the hardware command that raises: 1..MaxFault, or none

\* Number of length units in 1.0 when the tolerance 1e-4 (the default eps of
\* grid_sweep_coords) is one unit.
UnitsPerLength == 10000

\* grad_threshold = np.nanmax(grad)/10
GradFraction == 10

\* Loop iterations after which a loop of grid_sweep_coords is reported as
\* not having terminated.
MaxIter == MaxWidth + MaxHeight + MaxEps + 2

NotDone == [done |-> FALSE, val |-> <<>>]

(***************************************************************************)
(* Vectors (numpy 1-D arrays) and fractions.                               *)
(***************************************************************************)
RECURSIVE DotUpTo(_, _, _)
DotUpTo(u, v, n) == IF n = 0 THEN 0 ELSE u[n] * v[n] + DotUpTo(u, v, n - 1)

\* np.dot of two 1-D arrays
Dot(u, v) == DotUpTo(u, v, Len(u))

\* elementwise u - v
VSub(u, v) == [i \in 1..Len(u) |-> u[i] - v[i]]

\* elementwise u + v
VAdd(u, v) == [i \in 1..Len(u) |-> u[i] + v[i]]

\* scalar * vector
VScale(k, u) == [i \in 1..Len(u) |-> k * u[i]]

\* np.linalg.norm squared
NormSq(u) == Dot(u, u)

\* The sum of f[1..n].
RECURSIVE SumUpTo(_, _)
SumUpTo(f, n) == IF n = 0 THEN 0 ELSE f[n] + SumUpTo(f, n - 1)

Abs(x) == IF x < 0 THEN -x ELSE x

\* fractions <<n, d>> with d > 0
FracEq(a, b)   == a[1] * b[2] = b[1] * a[2]
FracLess(a, b) == a[1] * b[2] < b[1] * a[2]
FracMin(a, b)  == IF FracLess(b, a) THEN b ELSE a

(***************************************************************************)
(* analysis.dist_from_line                                                 *)
(***************************************************************************)
\* A clamp that forgets the upper limit of the segment.
ClampPercNoUpper(d, L) == IF d < 0 THEN 0 ELSE d

\* nearest_perc[nearest_perc < 0.] = 0.; nearest_perc[nearest_perc > 1.] = 1.
\* with nearest_perc = d / L kept as its numerator d.
ClampPerc(d, L) == IF d < 0 THEN 0 ELSE IF d > L THEN L ELSE d

\* The squared distance of pt from the segment start-end, as a fraction.
\* v1 = end - start, v2 = pt - start, nearest_perc = (v1 . v2) / |v1|^2,
\* nearest = v1 * nearest_perc, result |v2 - nearest|.
DistFromLine(pt, start, end) ==
    LET v1 == VSub(end, start)
        v2 == VSub(pt, start)
        L  == NormSq(v1)
        c  == ClampPerc(Dot(v1, v2), L)
        r  == VSub(VScale(L, v2), VScale(c, v1))
    IN  <<NormSq(r), L * L>>

(***************************************************************************)
(* analysis.lst_dist_from_rect                                             *)
(***************************************************************************)
\* A rotation matrix with the sines the other way round.
RotateRowClockwise(v, rot) ==
    <<v[1] * rot[1] + v[2] * rot[2], v[2] * rot[1] - v[1] * rot[2]>>

\* np.dot(v, rotation_matrix) with
\* rotation_matrix = [[cos, sin], [-sin, cos]]
RotateRow(v, rot) ==
    <<v[1] * rot[1] - v[2] * rot[2], v[1] * rot[2] + v[2] * rot[1]>>

\* The four corners, in the order the code builds them.
RectCorners(origin, width, height, rot) ==
    << origin,
       VAdd(origin, RotateRow(<<width, 0>>, rot)),
       VAdd(origin, RotateRow(<<width, height>>, rot)),
       VAdd(origin, RotateRow(<<0, height>>, rot)) >>

\* The squared distance of pt from the nearest edge of the rectangle.
LstDistFromRect(pt, origin_x, origin_y, width, height, rot) ==
    LET cn    == RectCorners(<<origin_x, origin_y>>, width, height, rot)
        dist1 == DistFromLine(pt, cn[1], cn[2])
        dist2 == DistFromLine(pt, cn[2], cn[3])
        dist3 == DistFromLine(pt, cn[3], cn[4])
        dist4 == DistFromLine(pt, cn[4], cn[1])
    IN  FracMin(FracMin(dist1, dist2), FracMin(dist3, dist4))

(***************************************************************************)
(* helpers.grid_sweep_coords                                               *)
(* The arguments are the record g = [sep, x, y, w, h, rot, eps].           *)
(***************************************************************************)
\* A row test that lets one more row through.
RowCondOneMore(y, g) == y - (g.y + g.h * g.rot[1]) < g.eps + g.sep

\* while y - (y_init + height * np.cos(rotation)) < eps
RowCond(y, g) == y - (g.y + g.h * g.rot[1]) < g.eps

\* while x - (x_init - height*sin) >= eps and
\*       x - (x_init + height*sin + width*cos) <= eps
ColCond(x, g) ==
    /\ x - (g.x - g.h * g.rot[2]) >= g.eps
    /\ x - (g.x + g.h * g.rot[2] + g.w * g.rot[1]) <= g.eps

\* A row pass that starts right -> left.
RowEndFromRight(x, y, idx, g) ==
    IF idx % 2 = 1
    THEN <<x + g.w * g.rot[1], y + g.w * g.rot[2]>>
    ELSE <<x - g.w * g.rot[1], y - g.w * g.rot[2]>>

\* The far end of row idx, which starts at (x, y): left -> right when idx is
\* even, right -> left when it is odd.
RowEnd(x, y, idx, g) ==
    IF idx % 2 = 0
    THEN <<x + g.w * g.rot[1], y + g.w * g.rot[2]>>
    ELSE <<x - g.w * g.rot[1], y - g.w * g.rot[2]>>

\* The far end of column idx, which starts at (x, y): top -> bottom when idx
\* is even, bottom -> top when it is odd.
ColEnd(x, y, idx, g) ==
    IF idx % 2 = 0
    THEN <<x - g.h * g.rot[2], y - g.h * g.rot[1]>>
    ELSE <<x + g.h * g.rot[2], y + g.h * g.rot[1]>>

\* The first loop: snake up through y.  fuel bounds the iterations; ok is
\* FALSE when the loop is still running after fuel iterations.
RECURSIVE RowLoop(_, _, _, _, _, _)
RowLoop(x, y, idx, coords, g, fuel) ==
    IF ~RowCond(y, g)
    THEN [x |-> x, y |-> y, idx |-> idx, coords |-> coords, ok |-> TRUE]
    ELSE IF fuel = 0
    THEN [x |-> x, y |-> y, idx |-> idx, coords |-> coords, ok |-> FALSE]
    ELSE LET e == RowEnd(x, y, idx, g)
         IN  RowLoop(e[1] + g.sep * g.rot[2], e[2] + g.sep * g.rot[1], idx + 1,
                     coords \o << <<x, y>>, e >>, g, fuel - 1)

\* The final row at the limit: its first waypoint, the position after the
\* move along it (not emitted here), and coeff.
FinalRow(idx, g) ==
    IF idx % 2 = 0
    THEN [coeff |-> 1,
          first |-> <<g.x + g.h * g.rot[2], g.y + g.h * g.rot[1]>>,
          after |-> <<g.x + g.h * g.rot[2] + g.w * g.rot[1],
                      g.y + g.h * g.rot[1] + g.w * g.rot[2]>>]
    ELSE [coeff |-> -1,
          first |-> <<g.x + g.w * g.rot[1] + g.h * g.rot[2],
                      g.y + g.w * g.rot[2] + g.h * g.rot[1]>>,
          after |-> <<g.x + g.h * g.rot[2], g.y + g.h * g.rot[1]>>]

\* The second loop: snake back through x.
RECURSIVE ColLoop(_, _, _, _, _, _, _)
ColLoop(x, y, idx, coeff, coords, g, fuel) ==
    IF ~ColCond(x, g)
    THEN [x |-> x, y |-> y, idx |-> idx, coords |-> coords, ok |-> TRUE]
    ELSE IF fuel = 0
    THEN [x |-> x, y |-> y, idx |-> idx, coords |-> coords, ok |-> FALSE]
    ELSE LET e == ColEnd(x, y, idx, g)
         IN  ColLoop(e[1] - coeff * g.sep * g.rot[1],
                     e[2] - coeff * g.sep * g.rot[2], idx + 1, coeff,
                     coords \o << <<x, y>>, e >>, g, fuel - 1)

\* The final column at the limit: its two waypoints.
FinalCol(idx, coeff, g) ==
    LET up == <<g.h * g.rot[2], g.h * g.rot[1]>>
        p  == IF coeff = -1
              THEN IF idx % 2 = 0
                   THEN <<g.x + g.w * g.rot[1] + g.h * g.rot[2],
                          g.y + g.w * g.rot[2] + g.h * g.rot[1]>>
                   ELSE <<g.x + g.w * g.rot[1], g.y + g.w * g.rot[2]>>
              ELSE IF idx % 2 = 0
                   THEN <<g.x + g.h * g.rot[2], g.y + g.h * g.rot[1]>>
                   ELSE <<g.x, g.y>>
    IN  IF idx % 2 = 0
        THEN << p, <<p[1] - up[1], p[2] - up[2]>> >>
        ELSE << p, <<p[1] + up[1], p[2] + up[2]>> >>

\* grid_sweep_coords: [coords, terminated].
GridSweepCoords(g) ==
    LET rows == RowLoop(g.x, g.y, 0, <<>>, g, MaxIter)
        fr   == FinalRow(rows.idx, g)
        cols == ColLoop(fr.after[1], fr.after[2], 0, fr.coeff,
                        Append(rows.coords, fr.first), g, MaxIter)
    IN  IF ~rows.ok
        THEN [coords |-> rows.coords, terminated |-> FALSE]
        ELSE IF ~cols.ok
        THEN [coords |-> cols.coords, terminated |-> FALSE]
        ELSE [coords |-> cols.coords \o FinalCol(cols.idx, fr.coeff, g),
              terminated |-> TRUE]

(***************************************************************************)
(* Frames and hardware at rest: nothing has been called yet.               *)
(***************************************************************************)
NoStage ==
    [axes |-> 0, ideal |-> FALSE, stalls |-> FALSE, speed |-> 0, pos |-> <<>>,
     target |-> <<>>]

NoField == [kind |-> "none"]

LsIdle == [pc |-> "idle"]

DsIdle == [pc |-> "idle"]

TrIdle == [pc |-> "idle", fn |-> "none"]

AtRest ==
    /\ stage = NoStage /\ field = NoField /\ log = <<>>
    /\ ls = LsIdle /\ ds = DsIdle /\ tr = TrIdle /\ fault = 0

(***************************************************************************)
(* The pure functions, each applied once to arguments drawn in Init.       *)
(***************************************************************************)
Coords == (0 - MaxCoord)..MaxCoord

Points2 == Coords \X Coords

Points3 == {<<a, b, c>> : a \in 0..1, b \in 0..1, c \in 0..1}

\* <<cos, sin>> of a rotation by k quarter turns
CosSin(k) == << <<1, 0>>, <<0, 1>>, <<-1, 0>>, <<0, -1>> >>[k + 1]

\* v turned by a quarter turn counter-clockwise, k times
RECURSIVE TurnCCW(_, _)
TurnCCW(v, k) == IF k = 0 THEN v ELSE TurnCCW(<<0 - v[2], v[1]>>, k - 1)

\* The corners origin, origin + width, origin + width + height and
\* origin + height of a rectangle turned counter-clockwise about its origin.
CornersCCW(r) ==
    { VAdd(<<r.ox, r.oy>>, TurnCCW(d, r.turns)) :
        d \in {<<0, 0>>, <<r.w, 0>>, <<r.w, r.h>>, <<0, r.h>>} }

LineCalls ==
    [fn : {"dist_from_line"}, pt : Points2, start : Points2, end : Points2]
        \cup [fn : {"dist_from_line"}, pt : Points3, start : Points3, end : Points3]

RectShapes ==
    [ox : 0..1, oy : 0..1, w : 1..MaxSide, h : 1..MaxSide, turns : 0..3]

RectCalls ==
    { [fn |-> "lst_dist_from_rect", pt |-> p, rect |-> r] :
        r \in RectShapes, p \in Points2 }
    \cup UNION { { [fn |-> "lst_dist_from_rect", pt |-> p, rect |-> r] :
                     p \in CornersCCW(r) } : r \in RectShapes }

\* separation=20, xInit=0, yInit=0, width=60, height=40, rotation=0,
\* epsilon=1e-4
GoldenGrid ==
    [sep |-> 20 * UnitsPerLength, x |-> 0, y |-> 0, w |-> 60 * UnitsPerLength,
     h |-> 40 * UnitsPerLength, rot |-> <<1, 0>>, eps |-> 1]

GridArgs ==
    [sep : 1..MaxSep, x : {-1, 0}, y : {0, 2}, w : 1..MaxWidth, h : 1..MaxHeight,
     rot : {CosSin(k) : k \in 0..3}, eps : 1..MaxEps] \cup {GoldenGrid}

GridCalls == { [fn |-> "grid_sweep_coords", g |-> g] : g \in GridArgs }

InitLine == call \in LineCalls /\ ret = NotDone /\ AtRest

InitRect == call \in RectCalls /\ ret = NotDone /\ AtRest

InitGrid == call \in GridCalls /\ ret = NotDone /\ AtRest

DistFromLineCall ==
    /\ call.fn = "dist_from_line"
    /\ ~ret.done
    /\ ret' = [done |-> TRUE, val |-> DistFromLine(call.pt, call.start, call.end)]
    /\ UNCHANGED <<call, stage, field, fault, log, ls, ds, tr>>

LstDistFromRectCall ==
    /\ call.fn = "lst_dist_from_rect"
    /\ ~ret.done
    /\ ret' = [done |-> TRUE,
               val  |-> LstDistFromRect(call.pt, call.rect.ox, call.rect.oy,
                                        call.rect.w, call.rect.h,
                                        CosSin(call.rect.turns))]
    /\ UNCHANGED <<call, stage, field, fault, log, ls, ds, tr>>

GridSweepCoordsCall ==
    /\ call.fn = "grid_sweep_coords"
    /\ ~ret.done
    /\ ret' = [done |-> TRUE, val |-> GridSweepCoords(call.g)]
    /\ UNCHANGED <<call, stage, field, fault, log, ls, ds, tr>>

NextLine == DistFromLineCall

NextRect == LstDistFromRectCall

NextGrid == GridSweepCoordsCall

SpecLine == InitLine /\ [][NextLine]_vars

SpecRect == InitRect /\ [][NextRect]_vars

SpecGrid == InitGrid /\ [][NextGrid]_vars

(***************************************************************************)
(* C7, C8: grid_sweep_coords                                               *)
(***************************************************************************)
GridDone == call.fn = "grid_sweep_coords" /\ ret.done

\* C7: with rotation = 0, every waypoint returned by grid_sweep_coords has
\* x in [xInit, xInit+width] and y in [yInit, yInit+height], each within
\* epsilon.
C7_WaypointsInsideRectangle ==
    (GridDone /\ call.g.rot = <<1, 0>>) =>
        /\ ret.val.terminated
        /\ \A i \in 1..Len(ret.val.coords) :
             LET p == ret.val.coords[i] g == call.g
             IN  /\ g.x - g.eps <= p[1] /\ p[1] <= g.x + g.w + g.eps
                 /\ g.y - g.eps <= p[2] /\ p[2] <= g.y + g.h + g.eps

\* A sweep at rotation 0 with a row above yInit+height, inside the tolerance.
C7_Witness ==
    /\ GridDone /\ call.g.rot = <<1, 0>>
    /\ \E i \in 1..Len(ret.val.coords) : ret.val.coords[i][2] > call.g.y + call.g.h

\* C8: for (separation=20, xInit=0, yInit=0, width=60, height=40,
\* rotation=0, epsilon=1e-4) the first three waypoints of grid_sweep_coords
\* are (0,0), (60,0), (60,20).
C8_GoldenFirstThree ==
    (GridDone /\ call.g = GoldenGrid) =>
        /\ ret.val.terminated
        /\ Len(ret.val.coords) >= 3
        /\ SubSeq(ret.val.coords, 1, 3) =
             << <<0, 0>>, <<60 * UnitsPerLength, 0>>,
                <<60 * UnitsPerLength, 20 * UnitsPerLength>> >>

C8_Witness == GridDone /\ call.g = GoldenGrid /\ Len(ret.val.coords) = 9

(***************************************************************************)
(* C9: dist_from_line                                                      *)
(***************************************************************************)
\* pt = start + (k/m)(end - start) for some 0 <= k/m <= 1
OnSegment(pt, start, end) ==
    \E m \in 1..(2 * MaxCoord) : \E k \in 0..m :
        \A i \in 1..Len(pt) : m * (pt[i] - start[i]) = k * (end[i] - start[i])

LineDone == call.fn = "dist_from_line" /\ ret.done /\ call.start # call.end

\* C9: for segStart # segEnd, dist_from_line(p, a, b) = dist_from_line(p, b, a),
\* and the distance is 0 for every point on the segment, endpoints included.
C9_ReversalAndOnSegment ==
    LineDone =>
        /\ FracEq(ret.val, DistFromLine(call.pt, call.end, call.start))
        /\ OnSegment(call.pt, call.start, call.end) => ret.val[1] = 0

\* A point whose projection falls beyond the end of the segment, so that the
\* clamp decides the distance.
C9_Witness ==
    /\ LineDone
    /\ Dot(VSub(call.end, call.start), VSub(call.pt, call.start))
         > NormSq(VSub(call.end, call.start))
    /\ ret.val[1] > 0

(***************************************************************************)
(* C10: lst_dist_from_rect                                                 *)
(***************************************************************************)
Max(a, b) == IF a > b THEN a ELSE b
Min(a, b) == IF a < b THEN a ELSE b

\* The squared distance of pt from the boundary of the rectangle, computed in
\* the rectangle's own frame.
BoundaryDistSq(pt, r) ==
    LET l  == TurnCCW(VSub(pt, <<r.ox, r.oy>>), (4 - r.turns) % 4)
        dx == Max(0, Max(0 - l[1], l[1] - r.w))
        dy == Max(0, Max(0 - l[2], l[2] - r.h))
        in == Min(Min(l[1], r.w - l[1]), Min(l[2], r.h - l[2]))
    IN  IF dx = 0 /\ dy = 0 THEN in * in ELSE dx * dx + dy * dy

RectDone == call.fn = "lst_dist_from_rect" /\ ret.done

\* C10: lst_dist_from_rect returns 0 at each of the four corners origin,
\* origin+width, origin+width+height, origin+height (turned counter-clockwise
\* about origin), and for any point the minimum of its distances to the four
\* edges joining those corners in that order.
C10_CornersAndNearestEdge ==
    RectDone =>
        /\ call.pt \in CornersCCW(call.rect) => ret.val[1] = 0
        /\ FracEq(ret.val, <<BoundaryDistSq(call.pt, call.rect), 1>>)

\* A corner of a rectangle turned by a quarter turn.
C10_Witness ==
    /\ RectDone /\ call.rect.turns = 1
    /\ call.pt = <<call.rect.ox - call.rect.h, call.rect.oy + call.rect.w>>
    /\ ret.val[1] = 0

(***************************************************************************)
(* The actuator and the sensor (the capability interfaces the core uses).  *)
(* stage = [axes, ideal, stalls, speed, pos, target]: an ideal stage moves *)
(* each axis towards its target and reports an axis busy until it is       *)
(* there, or, when it stalls, until it has been polled once during a       *)
(* non-blocking move; a stage that is not ideal reports busy or idle as it *)
(* likes.                                                                  *)
(***************************************************************************)
\* Stage.move(coords, mode, wait_until_idle): the axes coords names get a new
\* target; a blocking move returns with the stage at the target.
StageMove(st, to, mode, wait) ==
    LET tgt == [i \in 1..st.axes |->
                  IF i > Len(to) THEN st.pos[i]
                  ELSE IF mode = "abs" THEN to[i] ELSE st.pos[i] + to[i]]
    IN  [st EXCEPT !.target = tgt, !.pos = IF wait /\ st.ideal THEN tgt ELSE @]

\* Stage.stop(): the stage stays where it is.
StageStop(st) == [st EXCEPT !.target = st.pos]

\* One axis coordinate after moving d units towards its target.
Towards(x, t, d) ==
    IF x < t THEN (IF x + d > t THEN t ELSE x + d)
    ELSE (IF x - d < t THEN t ELSE x - d)

\* The stage after every axis has moved up to d units towards its target.
StageAdvance(st, d) ==
    [st EXCEPT !.pos = [i \in 1..st.axes |-> Towards(st.pos[i], st.target[i], d)]]

\* axis.is_busy() of every axis of an ideal stage
IdealBusy(st) == [i \in 1..st.axes |-> st.pos[i] # st.target[i]]

\* Handyscope.get_record() reduced to its RMS: the magnitudes the sensor can
\* return at position pos.
SampleSet(f, pos) ==
    CASE f.kind = "free"  -> 0..MaxMag
      [] f.kind = "const" -> {f.v}
      [] f.kind = "rect"  ->
            {IF /\ f.x <= pos[1] /\ pos[1] <= f.x + f.w
                /\ f.y <= pos[2] /\ pos[2] <= f.y + f.h
             THEN f.hi ELSE f.lo}
      [] f.kind = "band"  ->
            {IF pos[2] < f.y THEN f.below
             ELSE IF pos[2] <= f.y + f.h THEN f.on ELSE f.above}

MoveCmd(to, mode, wait) == [op |-> "move", to |-> to, mode |-> mode, wait |-> wait]
StopCmd == [op |-> "stop"]
GetPositionCmd == [op |-> "get_position"]
GetRecordCmd == [op |-> "get_record"]

\* The number of commands op in a log.
RECURSIVE CountOps(_, _)
CountOps(lg, op) ==
    IF lg = <<>> THEN 0
    ELSE (IF Head(lg).op = op THEN 1 ELSE 0) + CountOps(Tail(lg), op)

\* The stage after one command.
ExecCmd(st, c) ==
    CASE c.op = "move" -> StageMove(st, c.to, c.mode, c.wait)
      [] c.op = "stop" -> StageStop(st)
      [] OTHER         -> st

\* The stage after the commands cmds, in order.
RECURSIVE ExecAll(_, _)
ExecAll(st, cmds) ==
    IF cmds = <<>> THEN st ELSE ExecAll(ExecCmd(st, Head(cmds)), Tail(cmds))

\* A step that would take the log to lg issues the command that raises.
Faulty(lg) == fault > Len(log) /\ fault <= Len(lg)

\* The log when the command that raises has been issued: nothing follows it.
HwLog(lg) == SubSeq(lg, 1, fault)

\* The stage, from st on, when the command that raises is issued: the
\* commands of the step before it have taken effect.
HwStage(st, lg) == ExecAll(st, SubSeq(lg, Len(log) + 1, fault - 1))

\* A frame that goes on after a hardware call has raised.
FailedAndCaught(fr) == fr

\* A frame when a hardware call raises: a function that is executing (its
\* frame neither idle nor finished) does not catch the exception, which ends
\* it.
Failed(fr) ==
    IF fr.pc \in {"idle", "returned", "raised"} THEN fr
    ELSE [fr EXCEPT !.pc = "raised", !.error = "HardwareError"]

(***************************************************************************)
(* scan.linear_scan                                                        *)
(* ls = [pc, target, move_mode, scan_mode, break_fn, coordinates,          *)
(*       scan_data, break_state, polls, error]                             *)
(* A target is [shape, vec]: the shape of the array and its coordinates.   *)
(* A break function is [kind |-> "none"], [kind |-> "set", on |-> S] (true *)
(* on the magnitudes in S), the find_geometry closure of domain_search, or *)
(* the on_geometry / off_geometry closures of the tracers.                 *)
(***************************************************************************)
\* np.squeeze applied to a shape: the axes of length 1 are dropped.
Squeeze(shape) == SelectSeq(shape, LAMBDA n : n # 1)

\* str.lower() on the scan modes of the model
Lower(m) ==
    CASE m = "RMS"  -> "rms"
      [] m = "Spec" -> "spec"
      [] OTHER      -> m

\* The input checks with the one on the scan mode left out.
LsInputsOkAnyMode(target, axes, scan_mode) ==
    /\ Len(Squeeze(target.shape)) = 1
    /\ Squeeze(target.shape)[1] <= axes

\* The input checks of linear_scan: the target is a 1-D array with no more
\* coordinates than the stage has axes, and the scan mode is rms or spec.
LsInputsOk(target, axes, scan_mode) ==
    /\ Len(Squeeze(target.shape)) = 1
    /\ Squeeze(target.shape)[1] <= axes
    /\ Lower(scan_mode) \in {"rms", "spec"}

\* A detection test that also fires when the deviation equals the threshold.
FindGeometryOrEqual(v, off_geom, thr) ==
    IF off_geom = 0 THEN v # 0
    ELSE Abs(v - off_geom) * thr[2] >= thr[1] * Abs(off_geom)

\* find_geometry = lambda v: abs(v/off_geom - 1) > detection_threshold, with
\* the threshold the fraction thr[1]/thr[2].  Division by a zero reference
\* gives inf (which exceeds every threshold) or, for 0/0, NaN (which exceeds
\* none).
FindGeometry(v, off_geom, thr) ==
    IF off_geom = 0 THEN v # 0
    ELSE Abs(v - off_geom) * thr[2] > thr[1] * Abs(off_geom)

\* A test that also holds for a magnitude as far from one reference as from
\* the other.
OnGeometryOrEqual(v, geom_rms, vac_rms) == Abs(v - geom_rms) <= Abs(v - vac_rms)

\* on_geometry = lambda v: abs(v - geom_rms) < abs(v - vac_rms)
OnGeometry(v, geom_rms, vac_rms) == Abs(v - geom_rms) < Abs(v - vac_rms)

\* off_geometry = lambda v: abs(v - geom_rms) > abs(v - vac_rms)
OffGeometry(v, geom_rms, vac_rms) == Abs(v - geom_rms) > Abs(v - vac_rms)

\* crack_found = lambda v: abs(v - vac_rms) > abs(v - geom_rms)
CrackFound(v, geom_rms, vac_rms) == Abs(v - vac_rms) > Abs(v - geom_rms)

\* break_fn(v)
BreakFn(f, v) ==
    CASE f.kind = "set"           -> v \in f.on
      [] f.kind = "find_geometry" -> FindGeometry(v, f.off, f.thr)
      [] f.kind = "on_geometry"   -> OnGeometry(v, f.geom_rms, f.vac_rms)
      [] f.kind = "off_geometry"  -> OffGeometry(v, f.geom_rms, f.vac_rms)
      [] f.kind = "crack_found"   -> CrackFound(v, f.geom_rms, f.vac_rms)
      [] OTHER                    -> FALSE

\* A break test that never breaks.
ShouldBreakNever(f, v) == FALSE

\* if break_fn is not None: if break_fn(rms(scan_val)): ...
ShouldBreak(f, v) == f.kind # "none" /\ BreakFn(f, v)

\* A loop test that goes on only while all axes are busy.
AllBusy(rep) == \A i \in DOMAIN rep : rep[i]

\* any([stage.axes[i].is_busy() for i in range(len(stage.axes))])
AnyBusy(rep) == \E i \in DOMAIN rep : rep[i]

\* The frame of a call of linear_scan.
LsFrame(target, move_mode, scan_mode, break_fn) ==
    [pc |-> "call", target |-> target, move_mode |-> move_mode,
     scan_mode |-> scan_mode, break_fn |-> break_fn, coordinates |-> <<>>,
     scan_data |-> <<>>, break_state |-> FALSE, polls |-> <<>>, error |-> "none"]

\* linear_scan up to its loop: the input checks, then the non-blocking move.
\* lg is the log before the call.
LsEnter(fr, lg) ==
    IF ~LsInputsOk(fr.target, stage.axes, fr.scan_mode)
    THEN /\ ls' = [fr EXCEPT !.pc = "raised", !.error = "ValueError"]
         /\ log' = lg
         /\ UNCHANGED stage
    ELSE LET moved == Append(lg, MoveCmd(fr.target.vec, fr.move_mode, FALSE))
         IN  IF Faulty(moved)
             THEN /\ ls' = Failed(fr)
                  /\ log' = HwLog(moved)
                  /\ stage' = HwStage(stage, moved)
             ELSE /\ ls' = [fr EXCEPT !.pc = "polling"]
                  /\ stage' = StageMove(stage, fr.target.vec, fr.move_mode, FALSE)
                  /\ log' = moved

\* What the stage may show at one poll: its state when is_busy is asked, the
\* busy reports of its axes, and its state when get_position is asked.  An
\* ideal stage covers stage.speed units per axis between two polls; one that
\* stalls gives up its move at the second poll.
PollOutcomes ==
    IF stage.ideal /\ stage.stalls /\ ls.polls # <<>>
    THEN { [atBusy |-> StageStop(stage), busy |-> IdealBusy(StageStop(stage)),
            atRead |-> StageStop(stage)] }
    ELSE IF stage.ideal
    THEN { [atBusy |-> StageAdvance(stage, d), busy |-> IdealBusy(StageAdvance(stage, d)),
            atRead |-> StageAdvance(stage, d)] :
              d \in {stage.speed} }
    ELSE { [atBusy |-> stage, busy |-> rep,
            atRead |-> [stage EXCEPT !.pos = [i \in 1..stage.axes |->
                                        IF i = 1 THEN Len(ls.polls) ELSE @[i]]]] :
              rep \in { r \in [1..stage.axes -> BOOLEAN] :
                          AnyBusy(r) => Len(ls.polls) < MaxPolls } }

\* One pass of the loop of linear_scan that finds no axis busy: return.
LsPollIdle ==
    /\ ls.pc = "polling"
    /\ \E o \in PollOutcomes :
         /\ ~AnyBusy(o.busy)
         /\ ls' = [ls EXCEPT !.pc = "returned", !.polls = Append(@, o.busy)]
         /\ stage' = o.atBusy
    /\ UNCHANGED <<call, ret, field, fault, log, ds, tr>>

\* One pass of the loop of linear_scan with an axis busy: read the position,
\* acquire a sample, store both, test the break function.
LsPollBusy ==
    /\ ls.pc = "polling"
    /\ \E o \in PollOutcomes :
         /\ AnyBusy(o.busy)
         /\ \E v \in SampleSet(field, o.atRead.pos) :
              LET lg      == log \o <<GetPositionCmd, GetRecordCmd>>
                  stopped == Append(lg, StopCmd)
              IN  IF Faulty(lg)
                  THEN /\ ls' = Failed(ls) /\ ds' = Failed(ds) /\ tr' = Failed(tr)
                       /\ stage' = HwStage(o.atRead, lg)
                       /\ log' = HwLog(lg)
                  ELSE IF Lower(ls.scan_mode) = "spec"
                  THEN \* np.append of a 1-D spectrum to the 2-D scan_data along
                       \* axis 1 raises ValueError
                       /\ ls' = [ls EXCEPT !.pc = "raised", !.error = "ValueError",
                                       !.polls = Append(@, o.busy),
                                       !.coordinates = Append(@, o.atRead.pos)]
                       /\ stage' = o.atRead
                       /\ log' = lg
                       /\ UNCHANGED <<ds, tr>>
                  ELSE IF ShouldBreak(ls.break_fn, v) /\ Faulty(stopped)
                  THEN /\ ls' = Failed([ls EXCEPT !.polls = Append(@, o.busy),
                                              !.coordinates = Append(@, o.atRead.pos),
                                              !.scan_data = Append(@, v)])
                       /\ ds' = Failed(ds) /\ tr' = Failed(tr)
                       /\ stage' = HwStage(o.atRead, stopped)
                       /\ log' = HwLog(stopped)
                  ELSE IF ShouldBreak(ls.break_fn, v)
                  THEN /\ ls' = [ls EXCEPT !.pc = "returned", !.polls = Append(@, o.busy),
                                       !.coordinates = Append(@, o.atRead.pos),
                                       !.scan_data = Append(@, v),
                                       !.break_state = TRUE]
                       /\ stage' = StageStop(o.atRead)
                       /\ log' = stopped
                       /\ UNCHANGED <<ds, tr>>
                  ELSE /\ ls' = [ls EXCEPT !.polls = Append(@, o.busy),
                                       !.coordinates = Append(@, o.atRead.pos),
                                       !.scan_data = Append(@, v)]
                       /\ stage' = o.atRead
                       /\ log' = lg
                       /\ UNCHANGED <<ds, tr>>
    /\ UNCHANGED <<call, ret, field, fault>>

(***************************************************************************)
(* linear_scan on its own: any arguments, a stage that reports what it     *)
(* likes, a sensor that returns what it likes.                             *)
(***************************************************************************)
TargetShapes == {<<1>>, <<2>>, <<3>>, <<1, 2>>, <<2, 2>>}

ScanModes == {"RMS", "rms", "Spec", "spec", "fft"}

BreakFns ==
    {[kind |-> "none"]} \cup
    {[kind |-> "set", on |-> S] : S \in {{}, 0..MaxMag, {MaxMag}, {0}}}

RECURSIVE Product(_)
Product(shape) == IF shape = <<>> THEN 1 ELSE Head(shape) * Product(Tail(shape))

ScanStart ==
    /\ call = [fn |-> "linear_scan"] /\ ret = NotDone
    /\ \E n \in 1..2 :
         stage = [axes |-> n, ideal |-> FALSE, stalls |-> FALSE, speed |-> 0,
                  pos |-> [i \in 1..n |-> 0],
                  target |-> [i \in 1..n |-> 0]]
    /\ field = [kind |-> "free"]
    /\ log = <<>>
    /\ \E sh \in TargetShapes, mm \in {"abs", "rel"}, sm \in ScanModes, bf \in BreakFns :
         ls = LsFrame([shape |-> sh, vec |-> [i \in 1..Product(sh) |-> 1]], mm, sm, bf)
    /\ ds = DsIdle /\ tr = TrIdle

InitScan == ScanStart /\ fault = 0

LinearScanCall ==
    /\ ls.pc = "call"
    /\ LsEnter(ls, log)
    /\ UNCHANGED <<call, ret, field, fault, ds, tr>>

NextScan == LinearScanCall \/ LsPollIdle \/ LsPollBusy

SpecScan == InitScan /\ [][NextScan]_vars

(***************************************************************************)
(* C1, C2, C6: linear_scan                                                 *)
(***************************************************************************)
ScanReturned == call.fn = "linear_scan" /\ ls.pc = "returned"

\* The break predicate of the call holds for magnitude v.
C1_PredicateHolds(v) == ls.break_fn.kind = "set" /\ v \in ls.break_fn.on

\* C1: linear_scan returns brokeEarly = true exactly when the predicate was
\* true for some acquired sample; the trace then ends with the first such
\* sample, no sample is acquired after it and stop() was issued exactly once;
\* when brokeEarly = false, stop() was never issued.
C1_BreakExactlyOnPredicate ==
    ScanReturned =>
        LET n   == Len(ls.scan_data)
            hit == {i \in 1..n : C1_PredicateHolds(ls.scan_data[i])}
        IN  /\ ls.break_state <=> hit # {}
            /\ ls.break_state => hit = {n} /\ CountOps(log, "stop") = 1
            /\ ~ls.break_state => CountOps(log, "stop") = 0
            /\ CountOps(log, "get_record") = n
            /\ Len(ls.coordinates) = n

\* A scan that broke on its second sample.
C1_Witness ==
    /\ ScanReturned /\ ls.break_state
    /\ Len(ls.scan_data) = 2
    /\ log[Len(log)] = StopCmd

C2_NeverBreaks ==
    ls.break_fn.kind = "none" \/ (ls.break_fn.kind = "set" /\ ls.break_fn.on = {})

\* C2: with a break predicate that is always false, or none, linear_scan
\* issues one non-blocking move and returns only at the first poll at which
\* no axis reports busy, with brokeEarly = false and exactly one sample per
\* poll at which some axis was busy.
C2_RunsUntilIdle ==
    (ScanReturned /\ C2_NeverBreaks) =>
        LET n == Len(ls.polls)
        IN  /\ ~ls.break_state
            /\ CountOps(log, "move") = 1 /\ log[1].op = "move" /\ ~log[1].wait
            /\ CountOps(log, "stop") = 0
            /\ n >= 1
            /\ \A i \in 1..stage.axes : ~ls.polls[n][i]
            /\ \A k \in 1..(n - 1) : \E i \in 1..stage.axes : ls.polls[k][i]
            /\ Len(ls.scan_data) = n - 1
            /\ Len(ls.coordinates) = n - 1

\* A scan that returned after two polls at which only one of two axes was busy.
C2_Witness ==
    /\ ScanReturned /\ C2_NeverBreaks
    /\ Len(ls.scan_data) = 2
    /\ ls.polls[1] = <<TRUE, FALSE>>
    /\ ls.polls[2] = <<FALSE, TRUE>>

\* The target is a 1-D coordinate with no more components than the stage has
\* axes, and the scan mode is rms or spec in any case of letters.
C6_ArgumentsValid ==
    /\ Cardinality({i \in DOMAIN ls.target.shape : ls.target.shape[i] # 1}) = 1
    /\ Product(ls.target.shape) <= stage.axes
    /\ ls.scan_mode \in {"RMS", "rms", "Spec", "spec"}

\* C6: linear_scan called with a target that has more components than the
\* stage has axes, or that is not a 1-D coordinate, or with a scan mode other
\* than rms/spec, fails before the move command is issued: no move, no stop,
\* no sample.
C6_BadArgumentsFailBeforeMove ==
    (call.fn = "linear_scan" /\ ls.pc # "call" /\ ~C6_ArgumentsValid) =>
        /\ ls.pc = "raised"
        /\ log = <<>>
        /\ ls.coordinates = <<>> /\ ls.scan_data = <<>>

\* A call refused for a three-component target on a two-axis stage.
C6_Witness ==
    /\ call.fn = "linear_scan" /\ ls.pc = "raised"
    /\ ls.target.shape = <<3>> /\ stage.axes = 2
    /\ ls.scan_mode = "rms"
    /\ log = <<>>

(***************************************************************************)
(* helpers.within_radius and analysis.fit_geometry_to_data, as             *)
(* domain_search uses them                                                 *)
(***************************************************************************)
\* within_radius raises ValueError unless coords has as many coordinates as
\* origin.
WithinRadiusShapesOk(origin, coords) == Len(coords) = Len(origin)

\* A distance test that holds wherever the stage is.
WithinRadiusAnywhere(origin, coords, radius) == TRUE

\* distance < radius
WithinRadius(origin, coords, radius) ==
    NormSq(VSub(coords, origin)) < radius * radius

\* fit_geometry_to_data(*args): one argument is the data array, three are its
\* columns; any other number raises NotImplementedError.
FitArgsOk(nargs) == nargs \in {1, 3}

(***************************************************************************)
(* scan.domain_search                                                      *)
(* ds = [pc, origin, width, height, rotation, snake_separation,            *)
(*       fuzzy_separation, detection_threshold, coords, idx, off_geom,     *)
(*       geoms, coordinates, rms_data, tracer, error, observed]            *)
(* coords[idx] is the waypoint the sweep is heading for; observed lists    *)
(* the positions read by the test of the while loop, each with the idx it  *)
(* was read for.                                                           *)
(***************************************************************************)
\* The input checks with the one on the origin left out.
DsInputsOkAnyOrigin(axes, origin) == axes >= 2

\* The input checks of domain_search: at least two axes, and an origin that
\* is a 1-D array with no more coordinates than the stage has axes.
DsInputsOk(axes, origin) ==
    /\ axes >= 2
    /\ Len(Squeeze(origin.shape)) = 1
    /\ Squeeze(origin.shape)[1] <= axes

\* The frame of a call of domain_search.
DsFrame(origin, width, height, rotation, snake_separation, fuzzy_separation, detection_threshold) ==
    [pc |-> "call", origin |-> origin, width |-> width, height |-> height,
     rotation |-> rotation, snake_separation |-> snake_separation,
     fuzzy_separation |-> fuzzy_separation,
     detection_threshold |-> detection_threshold,
     coords |-> <<>>, idx |-> 0, off_geom |-> 0, geoms |-> <<>>,
     coordinates |-> <<>>, rms_data |-> <<>>, tracer |-> "none", error |-> "none",
     observed |-> <<>>]

DsRaise(fr, err) == [fr EXCEPT !.pc = "raised", !.error = err]

\* domain_search up to its loop: the input checks, the waypoints, the blocking
\* move to the first waypoint and the reference sample taken there.
DomainSearchCall ==
    /\ ds.pc = "call"
    /\ IF ~DsInputsOk(stage.axes, ds.origin)
       THEN /\ ds' = DsRaise(ds, "ValueError")
            /\ UNCHANGED <<stage, log>>
       ELSE LET grid == GridSweepCoords(
                            [sep |-> ds.snake_separation, x |-> ds.origin.vec[1],
                             y |-> ds.origin.vec[2], w |-> ds.width,
                             h |-> ds.height, rot |-> ds.rotation, eps |-> 1])
                st   == StageMove(stage, grid.coords[1], "abs", TRUE)
                lg   == log \o <<MoveCmd(grid.coords[1], "abs", TRUE), GetRecordCmd>>
            IN  /\ grid.terminated
                /\ IF Faulty(lg)
                   THEN /\ ds' = Failed([ds EXCEPT !.coords = grid.coords])
                        /\ stage' = HwStage(stage, lg)
                        /\ log' = HwLog(lg)
                   ELSE /\ stage' = st
                        /\ \E v \in SampleSet(field, st.pos) :
                             ds' = [ds EXCEPT !.pc = "loop", !.coords = grid.coords,
                                              !.idx = 2, !.off_geom = v]
                        /\ log' = lg
    /\ UNCHANGED <<call, ret, field, fault, ls, tr>>

\* find_geometry, closed over the reference magnitude
FindGeometryFn ==
    [kind |-> "find_geometry", off |-> ds.off_geom, thr |-> ds.detection_threshold]

\* The test of the while loop for the waypoint coords[idx]: when the stage is
\* within fuzzy_separation of it the for loop moves on to the next waypoint,
\* otherwise linear_scan is called towards it.
DsLoopTest ==
    /\ ds.pc = "loop"
    /\ ds.idx <= Len(ds.coords)
    /\ LET step == ds.coords[ds.idx]
           lg   == Append(log, GetPositionCmd)
           fr   == [ds EXCEPT !.observed = Append(@, [idx |-> ds.idx, pos |-> stage.pos])]
           scan == LsFrame([shape |-> <<2>>, vec |-> step], "abs", "RMS", FindGeometryFn)
       IN  IF Faulty(lg)
           THEN /\ ds' = Failed(ds)
                /\ log' = HwLog(lg)
                /\ UNCHANGED <<stage, ls>>
           ELSE IF ~WithinRadiusShapesOk(step, stage.pos)
           THEN /\ ds' = DsRaise(fr, "ValueError")
                /\ log' = lg
                /\ UNCHANGED <<stage, ls>>
           ELSE IF WithinRadius(step, stage.pos, ds.fuzzy_separation)
           THEN /\ ds' = [fr EXCEPT !.idx = @ + 1]
                /\ log' = lg
                /\ UNCHANGED <<stage, ls>>
           ELSE /\ LsEnter(scan, lg)
                /\ ds' = IF ls'.pc = "raised" THEN DsRaise(fr, ls'.error)
                         ELSE [fr EXCEPT !.pc = "scan"]
    /\ UNCHANGED <<call, ret, field, fault, tr>>

\* The tracer chosen for a new feature: the line tracer when the magnitude
\* sampled ahead is nearer to the reference than to the sample that broke the
\* scan, the perimeter tracer otherwise.
ChooseTracer(volume_v, off_geom, last_v) ==
    IF Abs(volume_v - off_geom) < Abs(volume_v - last_v)
    THEN "trace_line" ELSE "trace_perimeter"

\* After linear_scan has returned: store its data; on a break, test the
\* features known so far, probe ahead and choose the tracer.
DsAfterScan ==
    /\ ds.pc = "scan"
    /\ ls.pc = "returned"
    /\ LET cs == ds.coordinates \o ls.coordinates
           fr == [ds EXCEPT !.coordinates = cs, !.rms_data = @ \o ls.scan_data]
       IN  IF ~ls.break_state
           THEN ds' = [fr EXCEPT !.pc = "loop"] /\ UNCHANGED <<stage, log>>
           ELSE IF ds.geoms # <<>>
           THEN \* profile[0][0] subscripts a fitted parameter: IndexError
                ds' = DsRaise(fr, "IndexError") /\ UNCHANGED <<stage, log>>
           ELSE IF Len(cs) < 2
           THEN \* coordinates[:, -2] with a single column: IndexError
                ds' = DsRaise(fr, "IndexError") /\ UNCHANGED <<stage, log>>
           ELSE LET direction == VSub(cs[Len(cs)], cs[Len(cs) - 1])
                    ahead     == VScale(3 * ds.fuzzy_separation, direction)
                    back      == VScale(0 - 3 * ds.fuzzy_separation, direction)
                    st1       == StageMove(stage, ahead, "rel", TRUE)
                    st2       == StageMove(st1, back, "rel", TRUE)
                    lg        == log \o <<MoveCmd(ahead, "rel", TRUE), GetRecordCmd,
                                          MoveCmd(back, "rel", TRUE)>>
                IN  IF Faulty(lg)
                    THEN /\ ds' = Failed(fr)
                         /\ stage' = HwStage(stage, lg)
                         /\ log' = HwLog(lg)
                    ELSE /\ stage' = st2
                         /\ log' = lg
                         /\ \E volume_v \in SampleSet(field, st1.pos) :
                              IF Len(ls.scan_data) > 1
                              THEN \* rms_scan[-1] is the whole row of the scan:
                                   \* the truth value of the comparison is
                                   \* ambiguous, ValueError
                                   ds' = DsRaise(fr, "ValueError")
                              ELSE ds' = [fr EXCEPT !.pc = "trace",
                                             !.tracer = ChooseTracer(volume_v, ds.off_geom,
                                                                     ls.scan_data[1])]
    /\ UNCHANGED <<call, ret, field, fault, ls, tr>>

\* The tracer returns its samples (its own steps are not unfolded here);
\* they are stored, and the fit is called with two positional arguments.
DsAfterTrace ==
    /\ ds.pc = "trace"
    /\ \E n \in 0..1 :
         LET locs == [i \in 1..n |-> stage.pos]
             vals == [i \in 1..n |-> ds.off_geom]
             fr   == [ds EXCEPT !.coordinates = @ \o locs, !.rms_data = @ \o vals]
         IN  IF ~FitArgsOk(2)
             THEN ds' = DsRaise(fr, "NotImplementedError")
             ELSE ds' = [fr EXCEPT !.pc = "loop",
                            !.geoms = Append(@, [profile |-> ds.tracer])]
    /\ UNCHANGED <<call, ret, stage, field, fault, log, ls, tr>>

\* The for loop has run out of waypoints: return.
DomainSearchReturn ==
    /\ ds.pc = "loop"
    /\ ds.idx > Len(ds.coords)
    /\ ds' = [ds EXCEPT !.pc = "returned"]
    /\ UNCHANGED <<call, ret, stage, field, fault, log, ls, tr>>

(***************************************************************************)
(* domain_search with an ideal stage and a sensor that is a fixed function *)
(* of the position.                                                        *)
(***************************************************************************)
\* The shapes of the origin argument; the array holds as many components as
\* the product of its shape, the first two of them the corner of the sweep.
OriginShapes == {<<1>>, <<2>>, <<3>>, <<1, 2>>, <<2, 2>>}

Thresholds == {<<0, 1>>, <<1, 2>>}

\* The sensors: one magnitude everywhere, or hi inside one square and lo
\* outside it, or one magnitude on a band across the sweep and two others
\* on its two sides.
Fields ==
    {[kind |-> "const", v |-> v] : v \in 1..MaxMag} \cup
    {[kind |-> "rect", x |-> x, y |-> y, w |-> w, h |-> w, lo |-> 1, hi |-> MaxMag] :
        x \in 1..2, y \in 0..1, w \in 1..2} \cup
    {[kind |-> "band", y |-> 1, h |-> 1, below |-> MaxMag, on |-> 0, above |-> 1]}

SearchStart ==
    /\ call = [fn |-> "domain_search"] /\ ret = NotDone
    /\ \E n \in 1..3, sp \in 1..MaxSpeed, stalls \in BOOLEAN :
         stage = [axes |-> n, ideal |-> TRUE, stalls |-> stalls, speed |-> sp,
                  pos |-> [i \in 1..n |-> 0],
                  target |-> [i \in 1..n |-> 0]]
    /\ field \in Fields
    /\ log = <<>>
    /\ ls = LsIdle /\ tr = TrIdle
    /\ \E sh \in OriginShapes, w \in 2..MaxSweep, h \in 2..MaxSweep, sep \in 1..2,
          thr \in Thresholds :
         ds = DsFrame([shape |-> sh, vec |-> <<0, 0, 0>>], w, h, <<1, 0>>, sep, 1, thr)

InitSearch == SearchStart /\ fault = 0

NextSearch ==
    \/ DomainSearchCall
    \/ DsLoopTest
    \/ LsPollIdle
    \/ LsPollBusy
    \/ DsAfterScan
    \/ DsAfterTrace
    \/ DomainSearchReturn

SpecSearch == InitSearch /\ [][NextSearch]_vars

(***************************************************************************)
(* Claims about domain_search                                              *)
(***************************************************************************)
SearchLeftCall == call.fn = "domain_search" /\ ds.pc # "call"

\* The arguments C5 is about: a stage with fewer than two axes, or an origin
\* with more components than the stage has axes.
C5_BadArguments ==
    stage.axes < 2 \/ Product(ds.origin.shape) > stage.axes

\* C5: domain_search called with a stage of fewer than 2 axes, or with an
\* origin of more components than the stage has axes, raises before any move,
\* stop, position query or sensor acquisition is issued.
C5_BadArgumentsFailFirst ==
    (SearchLeftCall /\ C5_BadArguments) => (ds.pc = "raised" /\ log = <<>>)

\* A two-axis stage and an origin of three components: raised, nothing issued.
C5_Witness ==
    /\ SearchLeftCall
    /\ stage.axes = 2 /\ ds.origin.shape = <<3>>
    /\ ds.pc = "raised" /\ log = <<>>

\* Every waypoint of the sweep is a target the stage was sent to.
EveryWaypointTargeted ==
    \A i \in 1..Len(ds.coords) :
        \E j \in 1..Len(log) : log[j].op = "move" /\ log[j].to = ds.coords[i]

\* C3: with a sensor that returns the same non-zero magnitude everywhere and
\* moves that complete at their targets, an accepted call of domain_search
\* does not raise, never calls stop(), never invokes a tracer, and returns
\* an empty feature list after the stage was sent to every waypoint.
C3_ConstantSensorFindsNothing ==
    (/\ SearchLeftCall /\ field.kind = "const" /\ ~stage.stalls
     /\ DsInputsOk(stage.axes, ds.origin)) =>
        /\ ds.pc # "raised"
        /\ CountOps(log, "stop") = 0
        /\ ds.tracer = "none"
        /\ ds.pc = "returned" => (ds.geoms = <<>> /\ EveryWaypointTargeted)

\* The sensor and the arguments C4 is about: a square of high magnitude that
\* does not hold the first waypoint, sides longer than snake_separation and
\* than the distance between two samples, a stage of two axes.
C4_Applies ==
    /\ SearchLeftCall
    /\ field.kind = "rect"
    /\ DsInputsOk(stage.axes, ds.origin) /\ stage.axes = 2 /\ ~stage.stalls
    /\ ds.snake_separation < field.w /\ stage.speed < field.w
    /\ SampleSet(field, ds.coords[1]) = {field.lo}

\* C4: with one rectangle of high magnitude, snake_separation below its
\* smallest side and an ideal stage, domain_search does not raise and returns
\* exactly one feature, traced as an area.
C4_OneAreaFeature ==
    C4_Applies =>
        /\ ds.pc # "raised"
        /\ ds.pc = "returned" =>
             (Len(ds.geoms) = 1 /\ ds.geoms[1].profile = "trace_perimeter")

\* linear_scan has returned to domain_search with a break.
BreakToHandle == ds.pc = "scan" /\ ls.pc = "returned" /\ ls.break_state

\* C17: a break of the sweep while no feature is recorded is treated as a
\* new feature (the probe is made and a tracer is started); a break while
\* features are recorded is tested against every record without error, and
\* either the sweep continues with no tracer and no new record (a known
\* feature) or a tracer is started (a new one).
C17_BreakIsKnownOrNewFeature ==
    [][BreakToHandle =>
         IF ds.geoms = <<>>
         THEN ds'.pc = "trace"
         ELSE \/ ds'.pc = "trace"
              \/ ds'.pc = "loop" /\ ds'.geoms = ds.geoms /\ log' = log]_vars

ProbedAhead ==
    CHOOSE v \in SampleSet(field, StageMove(stage, log'[Len(log) + 1].to, "rel", TRUE).pos) : TRUE

\* C19: a new feature goes to trace_perimeter exactly when the magnitude
\* sampled ahead is nearer to the last sample of the interrupted scan (the
\* magnitude on the feature) than to the reference taken off the feature;
\* in every other case, the one of equal distances included, it goes to
\* trace_line.
C19_AreaOnlyWhenCloserToFeature ==
    [][(BreakToHandle /\ Len(log') = Len(log) + 3) =>
         /\ ds'.pc = "trace"
         /\ ds'.tracer =
              IF Abs(ProbedAhead - ls.scan_data[Len(ls.scan_data)])
                   < Abs(ProbedAhead - ds.off_geom)
              THEN "trace_perimeter" ELSE "trace_line"]_vars

\* C20: the only commands domain_search issues between the return of a
\* linear scan and the tracer are those of the probe, made after a break at
\* a new feature: one blocking relative move of length 3 * fuzzy_separation
\* whatever the distance between the last two samples, one sample, and one
\* blocking relative move that is the negation of the first, which leaves
\* the stage where the break was detected.
C20_ProbeIsThreeFuzzyAheadAndBack ==
    [][(ds.pc = "scan" /\ ls.pc = "returned" /\ log' # log) =>
         /\ ls.break_state
         /\ Len(log') = Len(log) + 3
         /\ LET ahead  == log'[Len(log) + 1]
                sample == log'[Len(log) + 2]
                back   == log'[Len(log) + 3]
            IN  /\ ahead.op = "move" /\ ahead.mode = "rel" /\ ahead.wait
                /\ Dot(ahead.to, ahead.to)
                     = 9 * ds.fuzzy_separation * ds.fuzzy_separation
                /\ sample.op = "get_record"
                /\ back.op = "move" /\ back.mode = "rel" /\ back.wait
                /\ back.to = VScale(0 - 1, ahead.to)
         /\ stage'.pos = stage.pos]_vars

(***************************************************************************)
(* scan.trace_perimeter                                                    *)
(* tr = [fn, pc, init_direction, separation, origin, cardinal, geom_rms,   *)
(*       vac_rms, first, current_pos, coordinates, rms_data, scans,        *)
(*       left, error]                                                      *)
(* scans counts the calls of linear_scan; left records whether a completed *)
(* pass of the loop ended with the stage outside the separation radius of  *)
(* origin.                                                                 *)
(***************************************************************************)
\* radius = halves/2: distance < radius
WithinRadiusHalves(origin, coords, halves) ==
    4 * NormSq(VSub(coords, origin)) < halves * halves

\* A matrix that swaps the first two coordinates instead of turning them.
CwiseSwapped(v) == [i \in 1..Len(v) |-> IF i = 1 THEN v[2] ELSE IF i = 2 THEN v[1] ELSE v[i]]

\* np.dot(cwise, v) with cwise[:2, :2] = [[0, -1], [1, 0]]
Cwise(v) == [i \in 1..Len(v) |-> IF i = 1 THEN 0 - v[2] ELSE IF i = 2 THEN v[1] ELSE v[i]]

\* np.dot(ccwise, v) with ccwise[:2, :2] = [[0, 1], [-1, 0]]
Ccwise(v) == [i \in 1..Len(v) |-> IF i = 1 THEN v[2] ELSE IF i = 2 THEN 0 - v[1] ELSE v[i]]

\* init_direction padded with zeros to one coordinate per axis
PadToAxes(v, axes) == [i \in 1..axes |-> IF i <= Len(v) THEN v[i] ELSE 0]

Sign(x) == IF x > 0 THEN 1 ELSE IF x < 0 THEN 0 - 1 ELSE 0

\* init_direction /= np.linalg.norm(init_direction), for a direction along
\* one axis
Normalise(v) == [i \in 1..Len(v) |-> Sign(v[i])]

\* The input checks of the tracers: a direction with no more coordinates than
\* the stage has axes, and at least two axes.
TracerInputsOk(init_direction, axes) == Len(init_direction) <= axes /\ axes >= 2

\* The loop test with the flag left out.
TpGoesOnNoFlag(first, origin, current_pos, separation) ==
    ~WithinRadiusHalves(origin, current_pos, 3 * separation)

\* while first or not within_radius(origin, current_pos, 1.5*separation)
TpGoesOn(first, origin, current_pos, separation) ==
    first \/ ~WithinRadiusHalves(origin, current_pos, 3 * separation)

\* if first and not within_radius(origin, current_pos, separation): first = False
TpFirstAfter(first, origin, current_pos, separation) ==
    IF first /\ ~WithinRadius(origin, current_pos, separation) THEN FALSE ELSE first

\* The frame of a call of a tracer.
TrFrame(fn, init_direction, separation) ==
    [fn |-> fn, pc |-> "call", init_direction |-> init_direction,
     separation |-> separation, origin |-> <<>>, cardinal |-> <<>>,
     geom_rms |-> 0, vac_rms |-> 0, first |-> TRUE, current_pos |-> <<>>,
     coordinates |-> <<>>, rms_data |-> <<>>, scans |-> 0, left |-> FALSE,
     error |-> "none"]

\* A scan off the feature that stops on the feature instead.
OffGeometryFnInverted == [kind |-> "on_geometry", geom_rms |-> tr.geom_rms, vac_rms |-> tr.vac_rms]

OffGeometryFn == [kind |-> "off_geometry", geom_rms |-> tr.geom_rms, vac_rms |-> tr.vac_rms]

OnGeometryFn == [kind |-> "on_geometry", geom_rms |-> tr.geom_rms, vac_rms |-> tr.vac_rms]

\* The blocking relative step by and the linear_scan towards (relative) that
\* the tracers pair: the stage steps, then scans with break function fn.  The
\* target of the scan has one coordinate per axis, so that the input checks
\* of linear_scan pass.
StepAndScan(by, towards, fn, lg) ==
    LET st      == StageMove(stage, by, "rel", TRUE)
        fr      == LsFrame([shape |-> <<stage.axes, 1>>, vec |-> towards], "rel", "RMS", fn)
        stepped == Append(lg, MoveCmd(by, "rel", TRUE))
        moved   == Append(stepped, MoveCmd(towards, "rel", FALSE))
    IN  IF Faulty(moved)
        THEN /\ ls' = IF Faulty(stepped) THEN ls ELSE Failed(fr)
             /\ stage' = HwStage(stage, moved)
             /\ log' = HwLog(moved)
        ELSE /\ ls' = [fr EXCEPT !.pc = "polling"]
             /\ stage' = StageMove(st, towards, "rel", FALSE)
             /\ log' = moved

\* The step has issued the command that raises.
Raises == fault # 0 /\ Len(log') = fault

\* trace_perimeter up to its loop: the input checks, the start position, the
\* first cardinal direction, the two reference samples ahead of and behind
\* the start, the return to the start.
TracePerimeterCall ==
    /\ tr.fn = "trace_perimeter" /\ tr.pc = "call"
    /\ IF ~TracerInputsOk(tr.init_direction, stage.axes)
       THEN /\ tr' = [tr EXCEPT !.pc = "raised", !.error = "ValueError"]
            /\ UNCHANGED <<stage, log>>
       ELSE LET dir    == Normalise(PadToAxes(tr.init_direction, stage.axes))
                origin == stage.pos
                ahead  == VScale(5 * tr.separation, dir)
                behind == VScale(0 - 10 * tr.separation, dir)
                st1    == StageMove(stage, ahead, "rel", TRUE)
                st2    == StageMove(st1, behind, "rel", TRUE)
                st3    == StageMove(st2, origin, "abs", TRUE)
                lg     == log \o <<GetPositionCmd, MoveCmd(ahead, "rel", TRUE), GetRecordCmd,
                                   MoveCmd(behind, "rel", TRUE), GetRecordCmd,
                                   MoveCmd(origin, "abs", TRUE), GetPositionCmd>>
            IN  IF Faulty(lg)
                THEN /\ tr' = Failed(tr)
                     /\ stage' = HwStage(stage, lg)
                     /\ log' = HwLog(lg)
                ELSE /\ stage' = st3
                     /\ log' = lg
                     /\ \E g \in SampleSet(field, st1.pos), v \in SampleSet(field, st2.pos) :
                          tr' = [tr EXCEPT !.pc = "test", !.origin = origin,
                                           !.cardinal = Cwise(dir), !.geom_rms = g,
                                           !.vac_rms = v, !.current_pos = st3.pos]
    /\ UNCHANGED <<call, ret, field, fault, ls, ds>>

\* The test of the outer loop: return, or step diagonally and scan across the
\* edge until off the geometry.
TpLoopTest ==
    /\ tr.fn = "trace_perimeter" /\ tr.pc = "test"
    /\ IF TpGoesOn(tr.first, tr.origin, tr.current_pos, tr.separation)
       THEN /\ tr.scans < MaxScans
            /\ StepAndScan(VAdd(VScale(tr.separation, tr.cardinal),
                                VScale(tr.separation, Ccwise(tr.cardinal))),
                           VScale(3 * tr.separation, Cwise(tr.cardinal)),
                           OffGeometryFn, log)
            /\ tr' = IF Raises THEN Failed(tr)
                     ELSE [tr EXCEPT !.pc = "off", !.scans = @ + 1]
       ELSE /\ tr' = [tr EXCEPT !.pc = "returned"]
            /\ UNCHANGED <<stage, log, ls>>
    /\ UNCHANGED <<call, ret, field, fault, ds>>

\* Storing that also takes the last sample of the scan as a new reference.
TrStoredResampled ==
    [tr EXCEPT !.coordinates = @ \o ls.coordinates, !.rms_data = @ \o ls.scan_data,
               !.current_pos = stage.pos,
               !.vac_rms = IF ls.scan_data = <<>> THEN @ ELSE ls.scan_data[Len(ls.scan_data)]]

\* Storing that keeps only the data of a scan that ended on a detection.
TrStoredOnBreak ==
    IF ls.break_state
    THEN [tr EXCEPT !.coordinates = @ \o ls.coordinates, !.rms_data = @ \o ls.scan_data,
                    !.current_pos = stage.pos]
    ELSE [tr EXCEPT !.current_pos = stage.pos]

\* The data of a returned linear_scan stored, the position read.
TrStored ==
    [tr EXCEPT !.coordinates = @ \o ls.coordinates, !.rms_data = @ \o ls.scan_data,
               !.current_pos = stage.pos]

\* After the scan off the geometry: without a break the cardinal direction
\* turns and the loop starts over at its test; with one the inner loop starts
\* with a diagonal step and a scan back onto the geometry.
TpAfterOff ==
    /\ tr.fn = "trace_perimeter" /\ tr.pc = "off" /\ ls.pc = "returned"
    /\ IF Faulty(Append(log, GetPositionCmd))
       THEN /\ tr' = Failed(tr)
            /\ log' = Append(log, GetPositionCmd)
            /\ UNCHANGED <<stage, ls>>
       ELSE IF ~ls.break_state
       THEN /\ tr' = [TrStored EXCEPT !.pc = "test", !.cardinal = Cwise(@)]
            /\ log' = Append(log, GetPositionCmd)
            /\ UNCHANGED <<stage, ls>>
       ELSE /\ tr.scans < MaxScans
            /\ StepAndScan(VAdd(VScale(tr.separation, tr.cardinal),
                                VScale(tr.separation, Cwise(tr.cardinal))),
                           VScale(3 * tr.separation, Ccwise(tr.cardinal)),
                           OnGeometryFn, Append(log, GetPositionCmd))
            /\ tr' = IF Raises THEN Failed(TrStored)
                     ELSE [TrStored EXCEPT !.pc = "on", !.scans = @ + 1]
    /\ UNCHANGED <<call, ret, field, fault, ds>>

\* After the scan onto the geometry: without a break the cardinal direction
\* turns back and the inner loop repeats; with one the pass is complete, the
\* flag first is updated and the loop returns to its test.
TpAfterOn ==
    /\ tr.fn = "trace_perimeter" /\ tr.pc = "on" /\ ls.pc = "returned"
    /\ IF Faulty(Append(log, GetPositionCmd))
       THEN /\ tr' = Failed(tr)
            /\ log' = Append(log, GetPositionCmd)
            /\ UNCHANGED <<stage, ls>>
       ELSE IF ~ls.break_state
       THEN LET cardinal == Ccwise(tr.cardinal)
            IN  /\ tr.scans < MaxScans
                /\ StepAndScan(VAdd(VScale(tr.separation, cardinal),
                                    VScale(tr.separation, Cwise(cardinal))),
                               VScale(3 * tr.separation, Ccwise(cardinal)),
                               OnGeometryFn, Append(log, GetPositionCmd))
                /\ tr' = IF Raises THEN Failed(TrStored)
                         ELSE [TrStored EXCEPT !.cardinal = cardinal, !.scans = @ + 1]
       ELSE /\ tr' = [TrStored EXCEPT
                         !.pc = "test",
                         !.first = TpFirstAfter(tr.first, tr.origin, stage.pos,
                                                tr.separation),
                         !.left = @ \/ ~WithinRadius(tr.origin, stage.pos, tr.separation)]
            /\ log' = Append(log, GetPositionCmd)
            /\ UNCHANGED <<stage, ls>>
    /\ UNCHANGED <<call, ret, field, fault, ds>>

(***************************************************************************)
(* trace_perimeter on its own: an ideal stage that starts on or near a     *)
(* square of high magnitude.                                               *)
(***************************************************************************)
InitDirections == {<<1, 0>>, <<0, 1>>, <<2, 0>>, <<1, 0, 0>>}

\* The sensors: one magnitude everywhere, or hi inside one rectangle long
\* enough to hold the reference sample taken ahead of the start, lo outside,
\* or a band whose magnitude lies halfway between those on its two sides.
TraceFields ==
    {[kind |-> "rect", x |-> 0, y |-> 0, w |-> w, h |-> h, lo |-> 1, hi |-> MaxMag] :
        w \in {5, 6, 10}, h \in 1..MaxSide}
    \cup {[kind |-> "const", v |-> 1]}
    \cup {[kind |-> "band", y |-> 1, h |-> 1, below |-> 0, on |-> 1, above |-> MaxMag]}

StartPositions == {<<x, y>> : x \in (0 - 1)..0, y \in 0..1}

InitTracer(fn) ==
    /\ call = [fn |-> fn] /\ ret = NotDone
    /\ \E n \in 1..3, sp \in 1..MaxSpeed, p \in StartPositions :
         stage = [axes |-> n, ideal |-> TRUE, stalls |-> FALSE, speed |-> sp,
                  pos |-> PadToAxes(p, n),
                  target |-> PadToAxes(p, n)]
    /\ field \in TraceFields
    /\ log = <<>>
    /\ ls = LsIdle /\ ds = DsIdle
    /\ \E d \in InitDirections, sep \in 1..(MaxSep - 1) : tr = TrFrame(fn, d, sep)

InitPerimeter == InitTracer("trace_perimeter") /\ fault = 0

NextPerimeter ==
    \/ TracePerimeterCall
    \/ TpLoopTest
    \/ LsPollIdle
    \/ LsPollBusy
    \/ TpAfterOff
    \/ TpAfterOn

SpecPerimeter == InitPerimeter /\ [][NextPerimeter]_vars

(***************************************************************************)
(* Claims about trace_perimeter                                            *)
(***************************************************************************)
PerimeterReturned == tr.fn = "trace_perimeter" /\ tr.pc = "returned"

\* C11: trace_perimeter returns only when a completed pass of its loop ended
\* with the stage outside the separation radius of the start position (the
\* flag first is then false, and once false it stays false) and the position
\* last read is within 1.5 x separation of the start position; it does not
\* return while first is still true.
C11_ReturnsOnlyAfterLeaving ==
    /\ [](PerimeterReturned =>
            /\ tr.left /\ ~tr.first
            /\ WithinRadiusHalves(tr.origin, tr.current_pos, 3 * tr.separation))
    /\ [](tr.pc \in {"test", "off", "on", "returned"} => (tr.first <=> ~tr.left))
    /\ [][~tr.first => ~tr'.first]_vars

\* trace_perimeter has returned after a pass that ended outside the radius.
C11_Witness ==
    /\ PerimeterReturned /\ tr.left /\ tr.scans >= 2
    /\ tr.current_pos # tr.origin

(***************************************************************************)
(* scan.trace_line                                                         *)
(* tr = the frame of trace_perimeter with, in place of first:              *)
(*   turns_since_last_seen, pass (1: the first loop, 2: the second) and    *)
(*   misses, the number of scans in a row of this pass that ended without  *)
(*   a break.                                                              *)
(***************************************************************************)
\* The counter after a scan without a break: the statement
\* `turns_since_last_seen + 1` computes a value and assigns nothing.
TlTurnsAfterMiss(turns_since_last_seen) == turns_since_last_seen

\* while turns_since_last_seen < 4
TlGoesOn(turns_since_last_seen) == turns_since_last_seen < 4

CrackFoundFn == [kind |-> "crack_found", geom_rms |-> tr.geom_rms, vac_rms |-> tr.vac_rms]

\* The frame of a call of trace_line.
TlFrame(init_direction, separation) ==
    [fn |-> "trace_line", pc |-> "call", init_direction |-> init_direction,
     separation |-> separation, origin |-> <<>>, cardinal |-> <<>>,
     geom_rms |-> 0, vac_rms |-> 0, turns_since_last_seen |-> 0, pass |-> 1,
     misses |-> 0, current_pos |-> <<>>, coordinates |-> <<>>, rms_data |-> <<>>,
     scans |-> 0, error |-> "none"]

\* trace_line up to its first loop: the input checks, the start position, the
\* first cardinal direction, the reference sample at the start and the one
\* behind it, the return to the start.
TraceLineCall ==
    /\ tr.fn = "trace_line" /\ tr.pc = "call"
    /\ IF ~TracerInputsOk(tr.init_direction, stage.axes)
       THEN /\ tr' = [tr EXCEPT !.pc = "raised", !.error = "ValueError"]
            /\ UNCHANGED <<stage, log>>
       ELSE LET dir    == Normalise(PadToAxes(tr.init_direction, stage.axes))
                origin == stage.pos
                behind == VScale(0 - 5 * tr.separation, dir)
                st1    == StageMove(stage, behind, "rel", TRUE)
                st2    == StageMove(st1, origin, "abs", TRUE)
                lg     == log \o <<GetPositionCmd, GetRecordCmd, MoveCmd(behind, "rel", TRUE),
                                   GetRecordCmd, MoveCmd(origin, "abs", TRUE),
                                   GetPositionCmd>>
            IN  IF Faulty(lg)
                THEN /\ tr' = Failed(tr)
                     /\ stage' = HwStage(stage, lg)
                     /\ log' = HwLog(lg)
                ELSE /\ stage' = st2
                     /\ log' = lg
                     /\ \E v \in SampleSet(field, stage.pos), g \in SampleSet(field, st1.pos) :
                          tr' = [tr EXCEPT !.pc = "test", !.origin = origin,
                                           !.cardinal = Cwise(dir), !.geom_rms = g,
                                           !.vac_rms = v, !.current_pos = st2.pos]
    /\ UNCHANGED <<call, ret, field, fault, ls, ds>>

\* The test of the loop of the current pass: step diagonally and scan for the
\* crack; or, the first loop over, go back to the start and begin the second
\* with the opposite cardinal direction; or, the second loop over, return.
TlLoopTest ==
    /\ tr.fn = "trace_line" /\ tr.pc = "test"
    /\ IF TlGoesOn(tr.turns_since_last_seen)
       THEN /\ tr.scans < MaxScans
            /\ StepAndScan(VAdd(VScale(tr.separation, tr.cardinal),
                                VScale(tr.separation, Ccwise(tr.cardinal))),
                           VScale(3 * tr.separation, Cwise(tr.cardinal)),
                           CrackFoundFn, log)
            /\ tr' = IF Raises THEN Failed(tr)
                     ELSE [tr EXCEPT !.pc = "scan", !.scans = @ + 1]
       ELSE IF tr.pass = 1
       THEN /\ tr' = IF Faulty(Append(log, MoveCmd(tr.origin, "abs", TRUE)))
                     THEN Failed(tr)
                     ELSE [tr EXCEPT !.pass = 2, !.turns_since_last_seen = 0,
                                     !.misses = 0,
                                     !.cardinal = Ccwise(Normalise(PadToAxes(
                                                      tr.init_direction, stage.axes)))]
            /\ stage' = IF Faulty(Append(log, MoveCmd(tr.origin, "abs", TRUE)))
                        THEN stage ELSE StageMove(stage, tr.origin, "abs", TRUE)
            /\ log' = Append(log, MoveCmd(tr.origin, "abs", TRUE))
            /\ UNCHANGED ls
       ELSE /\ tr' = [tr EXCEPT !.pc = "returned"]
            /\ UNCHANGED <<stage, log, ls>>
    /\ UNCHANGED <<call, ret, field, fault, ds>>

\* After the scan: its data stored and the position read; without a break
\* the cardinal direction turns, with one the counter is reset.
TlAfterScan ==
    /\ tr.fn = "trace_line" /\ tr.pc = "scan" /\ ls.pc = "returned"
    /\ IF Faulty(Append(log, GetPositionCmd))
       THEN tr' = Failed(tr)
       ELSE IF ~ls.break_state
       THEN tr' = [TrStored EXCEPT
                      !.pc = "test", !.cardinal = Cwise(@),
                      !.turns_since_last_seen = TlTurnsAfterMiss(@),
                      !.misses = @ + 1]
       ELSE tr' = [TrStored EXCEPT !.pc = "test", !.turns_since_last_seen = 0,
                                   !.misses = 0]
    /\ log' = Append(log, GetPositionCmd)
    /\ UNCHANGED <<call, ret, stage, field, fault, ls, ds>>

(***************************************************************************)
(* trace_line on its own, with the stage and the sensors of                *)
(* trace_perimeter on its own.                                             *)
(***************************************************************************)
LineTraceStart ==
    /\ call = [fn |-> "trace_line"] /\ ret = NotDone
    /\ \E n \in 1..3, sp \in 1..MaxSpeed, p \in StartPositions :
         stage = [axes |-> n, ideal |-> TRUE, stalls |-> FALSE, speed |-> sp,
                  pos |-> PadToAxes(p, n),
                  target |-> PadToAxes(p, n)]
    /\ field \in TraceFields
    /\ log = <<>>
    /\ ls = LsIdle /\ ds = DsIdle
    /\ \E d \in InitDirections, sep \in 1..(MaxSep - 1) : tr = TlFrame(d, sep)

InitLineTrace == LineTraceStart /\ fault = 0

NextLineTrace ==
    \/ TraceLineCall
    \/ TlLoopTest
    \/ LsPollIdle
    \/ LsPollBusy
    \/ TlAfterScan

SpecLineTrace == InitLineTrace /\ [][NextLineTrace]_vars

(***************************************************************************)
(* Claims about trace_line                                                 *)
(***************************************************************************)
\* C12: in trace_line turns_since_last_seen is the number of scans in a row
\* of the current pass that failed to redetect the crack (0 after a scan that
\* redetected it, one more after each scan that failed), and a pass ends as
\* soon as four scans in a row have failed: with a sensor that never
\* redetects the crack no pass holds more than 4 scans.
C12_CounterCountsFailedScans ==
    (tr.fn = "trace_line" /\ tr.pc \in {"test", "scan", "returned"}) =>
        /\ tr.turns_since_last_seen = tr.misses
        /\ tr.misses <= 4
        /\ field.kind = "const" => tr.scans <= 4 * tr.pass

(***************************************************************************)
(* The detection test of domain_search on its own: a magnitude v, the      *)
(* reference off_geom, a threshold, and a factor k that scales both v and  *)
(* the reference.                                                          *)
(***************************************************************************)
DetectThresholds == {<<n, d>> : n \in (0 - 1)..2, d \in {1, 2, 4}}

DetectCalls ==
    { [fn |-> "find_geometry", v |-> v, off_geom |-> r, thr |-> t, k |-> k] :
        v \in 0..MaxRms, r \in 0..(MaxRms - 2), t \in DetectThresholds, k \in 1..3 }

InitDetect == call \in DetectCalls /\ ret = NotDone /\ AtRest

\* find_geometry applied to v, to the magnitude as far on the other side of
\* the reference as v, and to v with both v and the reference scaled by k.
FindGeometryCall ==
    /\ call.fn = "find_geometry"
    /\ ~ret.done
    /\ ret' = [done |-> TRUE,
               val |-> [at       |-> FindGeometry(call.v, call.off_geom, call.thr),
                        mirrored |-> FindGeometry(2 * call.off_geom - call.v,
                                                  call.off_geom, call.thr),
                        scaled   |-> FindGeometry(call.k * call.v,
                                                  call.k * call.off_geom, call.thr)]]
    /\ UNCHANGED <<call, stage, field, fault, log, ls, ds, tr>>

NextDetect == FindGeometryCall

SpecDetect == InitDetect /\ [][NextDetect]_vars

DetectDone == call.fn = "find_geometry" /\ ret.done

\* |v - reference| compared with threshold * reference, both times thr[2]
DeviationMinusThreshold ==
    Abs(call.v - call.off_geom) * call.thr[2] - call.thr[1] * call.off_geom

\* C13: detected(v) = |v/reference - 1| > detectionThreshold, strictly: for a
\* reference above 0 it fires exactly when the relative deviation exceeds the
\* threshold (not when they are equal); it fires alike for v above and below
\* the reference; and scaling v and the reference by the same k > 0 does not
\* change it.
C13_DetectionIsStrictAndRelative ==
    DetectDone =>
        /\ call.off_geom > 0 => (ret.val.at <=> DeviationMinusThreshold > 0)
        /\ ret.val.mirrored = ret.val.at
        /\ ret.val.scaled = ret.val.at

\* The deviation equals the threshold, and the test has not fired.
C13_Witness ==
    /\ DetectDone /\ call.off_geom > 0 /\ call.v # call.off_geom /\ call.k > 1
    /\ DeviationMinusThreshold = 0
    /\ ~ret.val.at

(***************************************************************************)
(* Claims about the order of the sweep                                     *)
(***************************************************************************)
\* The position was observed less than fuzzy_separation away from waypoint i.
ObservedNear(o, i) ==
    /\ o.idx = i
    /\ NormSq(VSub(o.pos, ds.coords[i])) < ds.fuzzy_separation * ds.fuzzy_separation

InitFault ==
    /\ fault \in 0..MaxFault
    /\ \/ /\ ScanStart
          /\ stage.axes = 2 /\ ls.target.shape = <<2>> /\ ls.scan_mode = "RMS"
       \/ /\ SearchStart
          /\ stage.axes = 2 /\ ~stage.stalls /\ ds.origin.shape = <<2>>
          /\ ds.width = 2 /\ ds.height = 2 /\ ds.snake_separation = 1
          /\ ds.detection_threshold = <<0, 1>>
       \/ /\ InitTracer("trace_perimeter")
          /\ stage.axes = 2 /\ stage.pos = <<0, 0>> /\ tr.separation = 1
          /\ tr.init_direction = <<1, 0>>
       \/ /\ LineTraceStart
          /\ stage.axes = 2 /\ stage.pos = <<0, 0>> /\ tr.separation = 1
          /\ tr.init_direction = <<1, 0>>

NextFault ==
    \/ LinearScanCall
    \/ LsPollIdle
    \/ LsPollBusy
    \/ DomainSearchCall
    \/ DsLoopTest
    \/ DsAfterScan
    \/ DsAfterTrace
    \/ DomainSearchReturn
    \/ TracePerimeterCall
    \/ TpLoopTest
    \/ TpAfterOff
    \/ TpAfterOn
    \/ TraceLineCall
    \/ TlLoopTest
    \/ TlAfterScan

SpecFault == InitFault /\ [][NextFault]_vars

\* The frame of the function that was called from outside the core.
OuterFrame ==
    CASE call.fn = "linear_scan"   -> ls
      [] call.fn = "domain_search" -> ds
      [] OTHER                     -> tr

\* The command that raises has been issued.
HwRaised == fault # 0 /\ Len(log) >= fault

\* C15: when a sensor or actuator call raises during linear_scan,
\* trace_perimeter, trace_line or domain_search, that error ends the
\* outermost function (nothing catches it), no command is issued after the
\* failing one, and nothing else happens.
C15_HardwareErrorPropagates ==
    /\ [](HwRaised =>
            /\ Len(log) = fault
            /\ OuterFrame.pc = "raised" /\ OuterFrame.error = "HardwareError"
            /\ ls.pc \notin {"call", "polling"})
    /\ [][HwRaised => UNCHANGED vars]_vars

\* A command of a linear scan inside domain_search has raised, and both
\* functions have ended with that error.
C15_Witness ==
    /\ HwRaised /\ call.fn = "domain_search"
    /\ ls.pc = "raised" /\ ls.error = "HardwareError"
    /\ ds.pc = "raised" /\ ds.error = "HardwareError"
    /\ log[fault].op = "get_record"

(***************************************************************************)
(* C22..C26: the rows and columns of grid_sweep_coords                     *)
(***************************************************************************)
\* The number of k = 0, 1, ... with k * separation - height < eps: the rows
\* that start no higher than eps above the far edge.
RowsBelowLimit(g) == (g.h + g.eps - 1) \div g.sep + 1

GridAtZero == GridDone /\ call.g.rot = <<1, 0>>

\* C22: for rotation = 0 the row pass of grid_sweep_coords emits row k as
\* two consecutive waypoints at y = yInit + k*separation, from xInit to
\* xInit+width when k is even and back when k is odd, so that a row starts
\* at the x where the row before ended; the pass has a row for every k with
\* yInit + k*separation less than eps above yInit+height and no other: the
\* waypoint after them is on the far edge.
C22_RowsSnakeUpToTheLimit ==
    GridAtZero =>
        LET g == call.g
            c == ret.val.coords
            R == RowsBelowLimit(g)
        IN  /\ ret.val.terminated
            /\ Len(c) > 2 * R
            /\ \A k \in 0..(R - 1) :
                 /\ c[2 * k + 1] = <<IF k % 2 = 0 THEN g.x ELSE g.x + g.w, g.y + k * g.sep>>
                 /\ c[2 * k + 2] = <<IF k % 2 = 0 THEN g.x + g.w ELSE g.x, g.y + k * g.sep>>
                 /\ k > 0 => c[2 * k + 1][1] = c[2 * k][1]
                 /\ c[2 * k + 1][2] < g.y + g.h + g.eps
            /\ c[2 * R + 1][2] = g.y + g.h

\* A sweep at rotation 0 of four rows, the last of them above the far edge.
C22_Witness ==
    /\ GridAtZero
    /\ RowsBelowLimit(call.g) = 4
    /\ ret.val.coords[7][2] > call.g.y + call.g.h

\* C23: for rotation = 0 the output of grid_sweep_coords holds the final
\* row on the far edge as two consecutive waypoints, (xInit, yInit+height)
\* and (xInit+width, yInit+height) in one order or the other, whether or not
\* height is a multiple of separation and whether the rows before it are odd
\* or even in number.
C23_FinalRowOnFarEdge ==
    GridAtZero =>
        LET g == call.g
            c == ret.val.coords
        IN  /\ ret.val.terminated
            /\ \E i \in 1..(Len(c) - 1) :
                 {c[i], c[i + 1]} = {<<g.x, g.y + g.h>>, <<g.x + g.w, g.y + g.h>>}

\* Two consecutive waypoints after the first n of c, both at abscissa x,
\* one at yInit and the other at yInit + height.
ColumnLegAt(c, n, x, g) ==
    \E i \in (n + 1)..(Len(c) - 1) :
        /\ c[i][1] = x /\ c[i + 1][1] = x
        /\ {c[i][2], c[i + 1][2]} = {g.y, g.y + g.h}

\* C24: for rotation = 0, after its rows grid_sweep_coords emits a column
\* pass: counted from the side where the final row ended, every multiple
\* j*separation that stays at least eps short of width has a leg of two
\* consecutive waypoints of equal x between yInit and yInit+height, and there
\* is a last column flush with the opposite side; whether the rows before
\* were odd or even in number.
C24_ColumnsAfterRows ==
    GridAtZero =>
        LET g == call.g
            c == ret.val.coords
            R == RowsBelowLimit(g)
            fromRight == R % 2 = 0
        IN  /\ ret.val.terminated
            /\ \A j \in 0..g.w :
                 j * g.sep <= g.w - g.eps =>
                   ColumnLegAt(c, 2 * R,
                               IF fromRight THEN g.x + g.w - j * g.sep
                               ELSE g.x + j * g.sep, g)
            /\ ColumnLegAt(c, 2 * R, IF fromRight THEN g.x ELSE g.x + g.w, g)

\* C25: for every rotation (0, 90, 180 and 270 degrees among them)
\* grid_sweep_coords terminates, and returns at most
\* 2*(floor(height/separation) + floor(width/separation)) + 7 waypoints.
C25_TerminatesWithBoundedOutput ==
    GridDone =>
        /\ ret.val.terminated
        /\ Len(ret.val.coords)
             <= 2 * (call.g.h \div call.g.sep + call.g.w \div call.g.sep) + 7

\* The point p turned about the anchor of the grid g by the rotation rot,
\* counter-clockwise as the corners of lst_dist_from_rect are.
TurnedAboutAnchor(p, g, rot) ==
    VAdd(<<g.x, g.y>>, RotateRow(VSub(p, <<g.x, g.y>>), rot))

\* C26: the waypoints grid_sweep_coords returns for a rotation are those it
\* returns for rotation 0 with the same separation, anchor, width and
\* height, each turned by the rotation about the anchor, counter-clockwise.
C26_RotatedGridIsGridRotated ==
    GridDone =>
        LET g    == call.g
            flat == GridSweepCoords([g EXCEPT !.rot = <<1, 0>>])
        IN  /\ ret.val.terminated
            /\ flat.terminated
            /\ ret.val.coords =
                 [i \in 1..Len(flat.coords) |-> TurnedAboutAnchor(flat.coords[i], g, g.rot)]

(***************************************************************************)
(* The two tracers, each called on its own.                                *)
(***************************************************************************)
InitTracers == InitPerimeter \/ InitLineTrace

NextTracers ==
    \/ TracePerimeterCall
    \/ TpLoopTest
    \/ TpAfterOff
    \/ TpAfterOn
    \/ TraceLineCall
    \/ TlLoopTest
    \/ TlAfterScan
    \/ LsPollIdle
    \/ LsPollBusy

SpecTracers == InitTracers /\ [][NextTracers]_vars

\* The tracer has been entered and its loop has not yet made a scan.
TracerAtLoopStart == tr.fn # "none" /\ tr.pc = "test" /\ tr.scans = 0

\* The unit direction of travel the tracer was given.
TravelDirection == Normalise(PadToAxes(tr.init_direction, stage.axes))

\* C27: when trace_perimeter or trace_line starts its loop, the cardinal
\* direction is the unit direction of travel (dx, dy) turned 90 degrees
\* clockwise, to the right of the travel: (dy, -dx).
C27_CardinalIsRightOfTravel ==
    TracerAtLoopStart =>
        /\ tr.cardinal[1] = TravelDirection[2]
        /\ tr.cardinal[2] = 0 - TravelDirection[1]

\* The tracer holds a cardinal direction.
CardinalSet == tr.fn # "none" /\ tr.pc \in {"test", "off", "on", "scan", "returned"}

ReferencePositions ==
    LET ahead  == VAdd(tr.origin, VScale(5 * tr.separation, TravelDirection))
        behind == VAdd(tr.origin, VScale(0 - 5 * tr.separation, TravelDirection))
    IN  IF tr.fn = "trace_perimeter"
        THEN [geom |-> ahead, vac |-> behind]
        ELSE [geom |-> behind, vac |-> tr.origin]

\* C29: each tracer takes its two reference magnitudes once each before its
\* loop and then goes back to the start with a blocking absolute move, so
\* that the loop starts where the tracer was entered; after that the tracer
\* itself takes no sample and the references keep their values.
C29_ReferencesSampledOnceThenRestored ==
    /\ [](TracerAtLoopStart =>
            /\ CountOps(log, "get_record") = 2
            /\ tr.geom_rms \in SampleSet(field, ReferencePositions.geom)
            /\ tr.vac_rms \in SampleSet(field, ReferencePositions.vac)
            /\ log[1] = GetPositionCmd
            /\ log[Len(log) - 1] = MoveCmd(tr.origin, "abs", TRUE)
            /\ stage.pos = tr.origin /\ tr.current_pos = tr.origin)
    /\ [][(CardinalSet /\ tr' # tr) =>
            /\ tr'.geom_rms = tr.geom_rms /\ tr'.vac_rms = tr.vac_rms
            /\ tr'.origin = tr.origin
            /\ CountOps(log', "get_record") = CountOps(log, "get_record")]_vars

\* trace_perimeter in its loop, after scans that took samples, with two
\* different references taken away from the start.
C29_Witness ==
    /\ tr.fn = "trace_perimeter" /\ tr.pc = "test" /\ tr.scans >= 2
    /\ tr.geom_rms # tr.vac_rms
    /\ CountOps(log, "get_record") > 3
    /\ stage.pos # tr.origin

\* A step in which trace_perimeter starts a half-step: a linear scan with the
\* break function of the given kind.
HalfStepStarts(kind) ==
    /\ tr.fn = "trace_perimeter"
    /\ ls.pc # "polling" /\ ls'.pc = "polling"
    /\ ls'.break_fn.kind = kind

\* The last half-step was of the given kind and did, or did not, detect.
LastHalfStep(kind, detected) ==
    ls.pc = "returned" /\ ls.break_fn.kind = kind /\ ls.break_state = detected

\* v turned k quarter turns counter-clockwise in the plane of the first two
\* axes.
TurnedInPlane(v, k) ==
    [i \in 1..Len(v) |-> IF i <= 2 THEN TurnCCW(<<v[1], v[2]>>, k)[i] ELSE v[i]]

\* C30: trace_perimeter starts a half-step onto the feature only after a
\* scan off the feature that detected (then straight back across the edge)
\* or after a scan onto the feature that did not (then with the direction
\* turned a quarter turn one way); it starts a half-step off the feature
\* only at its start, after a scan onto the feature that detected (straight
\* back) or after a scan off the feature that did not (then with the
\* direction turned a quarter turn the other way).
C30_HalfStepsAlternate ==
    /\ [][HalfStepStarts("on_geometry") =>
            \/ /\ LastHalfStep("off_geometry", TRUE)
               /\ ls'.target.vec = VScale(0 - 1, ls.target.vec)
            \/ /\ LastHalfStep("on_geometry", FALSE)
               /\ ls'.target.vec = TurnedInPlane(ls.target.vec, 3)]_vars
    /\ [][HalfStepStarts("off_geometry") =>
            \/ ls.pc = "idle" /\ tr.scans = 0
            \/ /\ LastHalfStep("on_geometry", TRUE)
               /\ ls'.target.vec = VScale(0 - 1, ls.target.vec)
            \/ /\ LastHalfStep("off_geometry", FALSE)
               /\ ls'.target.vec = TurnedInPlane(ls.target.vec, 1)]_vars

\* trace_perimeter back at its loop test after a half-step onto the feature
\* that detected, having turned on the way.
C30_Witness ==
    /\ tr.fn = "trace_perimeter" /\ tr.pc = "test" /\ tr.scans >= 3
    /\ LastHalfStep("on_geometry", TRUE)
    /\ tr.cardinal # Cwise(TravelDirection)

\* A half-step of trace_perimeter has ended without a detection: its scan has
\* returned with no break, and the tracer has not yet read the position.
FailedHalfStep ==
    /\ tr.fn = "trace_perimeter" /\ tr.pc \in {"off", "on"}
    /\ ls.pc = "returned" /\ ~ls.break_state

\* C31: when a half-step of trace_perimeter has failed, the stage (from where
\* the retry starts) is at the position the tracer read before that
\* half-step: the diagonal step and the scan have no net effect.
C31_CornerTurnDoesNotAdvance == FailedHalfStep => stage.pos = tr.current_pos

\* v is strictly nearer to a than to b.
Nearer(v, a, b) == (v - a) * (v - a) < (v - b) * (v - b)

\* A linear scan of trace_perimeter is under way or has returned.
PerimeterScanning ==
    /\ tr.fn = "trace_perimeter" /\ tr.pc \in {"off", "on"}
    /\ ls.pc \in {"polling", "returned"}

\* The test the scan in ls is to stop on holds for v: nearer to the
\* reference taken ahead of the start (on the feature) for a scan onto the
\* feature, nearer to the one taken behind it for a scan off the feature.
ExpectedCondition(v) ==
    IF ls.break_fn.kind = "on_geometry" THEN Nearer(v, tr.geom_rms, tr.vac_rms)
    ELSE Nearer(v, tr.vac_rms, tr.geom_rms)

\* C32: the scans of trace_perimeter stop on the strict
\* nearest-of-two-references tests and on nothing else: a sample of a scan
\* satisfies the test of the scan exactly when it is the sample the scan
\* broke on; the two tests built from the references of the tracer are the
\* strict comparisons of the two distances, never hold together, and neither
\* holds for a magnitude as far from one reference as from the other.
C32_NearestOfTwoReferences ==
    PerimeterScanning =>
        /\ ls.break_fn.kind \in {"on_geometry", "off_geometry"}
        /\ ls.break_fn.geom_rms = tr.geom_rms /\ ls.break_fn.vac_rms = tr.vac_rms
        /\ \A i \in 1..Len(ls.scan_data) :
             ExpectedCondition(ls.scan_data[i])
                <=> (ls.break_state /\ i = Len(ls.scan_data))
        /\ \A v \in 0..MaxMag :
             LET on  == ShouldBreak(OnGeometryFn, v)
                 off == ShouldBreak(OffGeometryFn, v)
             IN  /\ on <=> Nearer(v, tr.geom_rms, tr.vac_rms)
                 /\ off <=> Nearer(v, tr.vac_rms, tr.geom_rms)
                 /\ ~(on /\ off)
                 /\ Abs(v - tr.geom_rms) = Abs(v - tr.vac_rms) => ~on /\ ~off

\* A scan of trace_perimeter with two different references has returned on a
\* detection after a sample as far from one reference as from the other.
C32_Witness ==
    /\ PerimeterScanning /\ ls.pc = "returned" /\ ls.break_state
    /\ tr.geom_rms # tr.vac_rms
    /\ \E i \in 1..Len(ls.scan_data) :
         Abs(ls.scan_data[i] - tr.geom_rms) = Abs(ls.scan_data[i] - tr.vac_rms)

\* A linear scan of trace_line is under way or has returned.
LineScanning ==
    /\ tr.fn = "trace_line" /\ tr.pc = "scan"
    /\ ls.pc \in {"polling", "returned"}

\* C33: in trace_line the reference taken where the crack was detected (at
\* the start position) is a magnitude of the sensor there, the other
\* reference one of the sensor 5 x separation behind the start, and a sample
\* of a scan ends the scan exactly when it is strictly nearer to the
\* reference taken at the start than to the one taken behind it.
C33_CrackFoundIsNearerToStartReference ==
    LineScanning =>
        LET on_crack  == tr.vac_rms
            off_crack == tr.geom_rms
            behind    == VSub(tr.origin, VScale(5 * tr.separation, TravelDirection))
        IN  /\ on_crack \in SampleSet(field, tr.origin)
            /\ off_crack \in SampleSet(field, behind)
            /\ \A i \in 1..Len(ls.scan_data) :
                 Nearer(ls.scan_data[i], on_crack, off_crack)
                    <=> (ls.break_state /\ i = Len(ls.scan_data))

\* trace_perimeter is at its loop test, scans behind it, in the state in which
\* it first came to that test: the stage at the start position, the cardinal
\* direction the first one, the flag first still set.  The loop goes on
\* (first is set), and with a stage and a sensor that repeat themselves the
\* run from here is the run from the start over again.
BackWhereItBegan ==
    /\ tr.fn = "trace_perimeter" /\ tr.pc = "test" /\ tr.scans > 0
    /\ TpGoesOn(tr.first, tr.origin, tr.current_pos, tr.separation)
    /\ tr.first
    /\ stage.pos = tr.origin /\ tr.current_pos = tr.origin
    /\ tr.cardinal = Cwise(TravelDirection)

\* C34: trace_perimeter terminates with every sensor field, one in which no
\* scan ever detects included: it never comes round to its loop test in the
\* very state in which it began, to turn and scan the same way without end.
C34_NeverTurnsForever == ~BackWhereItBegan

\* C35: the position with which trace_perimeter registers that it has left
\* the neighbourhood of the start (the step that clears the flag first) does
\* not satisfy the closing test: the loop goes on for that position, so the
\* trace does not end in the iteration in which the departure is registered.
C35_DepartureIsNotClosure ==
    [][(tr.fn = "trace_perimeter" /\ tr.first /\ ~tr'.first) =>
          /\ tr'.pc = "test"
          /\ TpGoesOn(tr'.first, tr'.origin, tr'.current_pos, tr'.separation)]_vars

(***************************************************************************)
(* The four functions that accumulate a trace, each called on its own with *)
(* hardware that does not fail.                                            *)
(***************************************************************************)
InitTraces == InitScan \/ InitSearch \/ InitTracers

SpecTraces == InitTraces /\ [][NextFault]_vars

\* s is a prefix of t.
IsPrefix(s, t) == Len(s) <= Len(t) /\ SubSeq(t, 1, Len(s)) = s

\* linear_scan is between two polls or has returned.
LsHoldsTrace == ls.pc \in {"polling", "returned"}

\* A tracer has been called.
TrHoldsTrace == tr.fn # "none"

\* domain_search has been called.
DsHoldsTrace == ds.pc # "idle"

\* A caller takes over the data of the linear_scan that has returned to it.
TracerTakesScan == TrHoldsTrace /\ tr.pc \in {"off", "on", "scan"} /\ ls.pc = "returned" /\ tr' # tr

SearchTakesScan == DsHoldsTrace /\ ds.pc = "scan" /\ ls.pc = "returned" /\ ds' # ds

\* C36: the trace of linear_scan (between polls and on return), of the
\* tracers and of domain_search holds as many coordinates as magnitudes; a
\* step only appends to it; each sample of a scan is a magnitude of the
\* sensor at the position stored with it, the one read in the same poll; and
\* a caller appends the whole data of a returned scan to its trace, whether
\* the scan ended on a detection or not.
C36_TraceIsPairedAndAppendOnly ==
    /\ [](LsHoldsTrace =>
            /\ Len(ls.coordinates) = Len(ls.scan_data)
            /\ Len(ls.coordinates) = Len(SelectSeq(ls.polls, AnyBusy))
            /\ \A i \in 1..Len(ls.scan_data) :
                 ls.scan_data[i] \in SampleSet(field, ls.coordinates[i]))
    /\ [](TrHoldsTrace =>
            /\ Len(tr.coordinates) = Len(tr.rms_data)
            /\ \A i \in 1..Len(tr.rms_data) :
                 tr.rms_data[i] \in SampleSet(field, tr.coordinates[i]))
    /\ [](DsHoldsTrace => Len(ds.coordinates) = Len(ds.rms_data))
    /\ [][LsHoldsTrace /\ ls.pc = "polling" =>
            /\ IsPrefix(ls.coordinates, ls'.coordinates)
            /\ IsPrefix(ls.scan_data, ls'.scan_data)]_vars
    /\ [][TrHoldsTrace =>
            /\ IsPrefix(tr.coordinates, tr'.coordinates)
            /\ IsPrefix(tr.rms_data, tr'.rms_data)]_vars
    /\ [][DsHoldsTrace =>
            /\ IsPrefix(ds.coordinates, ds'.coordinates)
            /\ IsPrefix(ds.rms_data, ds'.rms_data)]_vars
    /\ [][TracerTakesScan =>
            /\ tr'.coordinates = tr.coordinates \o ls.coordinates
            /\ tr'.rms_data = tr.rms_data \o ls.scan_data]_vars
    /\ [][SearchTakesScan =>
            /\ ds'.coordinates = ds.coordinates \o ls.coordinates
            /\ ds'.rms_data = ds.rms_data \o ls.scan_data]_vars

\* trace_perimeter has stored the samples of a scan that ended without a
\* detection after those of an earlier scan.
C36_Witness ==
    /\ tr.fn = "trace_perimeter" /\ tr.pc = "test"
    /\ ls.pc = "returned" /\ ~ls.break_state /\ ls.coordinates # <<>>
    /\ Len(tr.coordinates) > Len(ls.coordinates)
    /\ SubSeq(tr.coordinates, Len(tr.coordinates) - Len(ls.coordinates) + 1,
              Len(tr.coordinates)) = ls.coordinates

(***************************************************************************)
(* analysis.fit_geometry_to_data: the gradient filter                      *)
(* data is the (N, 3) array as a sequence of rows <<x, y, v>>.  The fit    *)
(* that follows the filter (scipy curve_fit) is not part of the model.     *)
(***************************************************************************)
\* np.abs(np.diff(data[:, 2]))[i]
AbsDiffV(data, i) == Abs(data[i + 1][3] - data[i][3])

\* the square of the distance between the positions of rows i and i+1
StepSq(data, i) == NormSq(VSub(<<data[i + 1][1], data[i + 1][2]>>, <<data[i][1], data[i][2]>>))

\* np.linalg.norm([np.diff(data[:, 0]), np.diff(data[:, 1])]) squared: the
\* norm of the whole 2 x (N-1) array (no axis is given), one number for all
\* pairs.
DiffNormSq(data) == SumUpTo([i \in 1..(Len(data) - 1) |-> StepSq(data, i)], Len(data) - 1)

\* The rows kept by the gradient filter, by their indices in order; ValueError
\* when there is no pair of rows (np.nanmax of an empty array).  Every
\* |dv| is divided by the same norm, so a row is kept when its |dv| exceeds a
\* tenth of the largest; with a norm of zero the gradients are inf or NaN
\* and no comparison holds.
GradientFilter(data) ==
    LET n == Len(data) - 1
    IN  IF n < 1 THEN [error |-> "ValueError", kept |-> <<>>]
        ELSE [error |-> "none",
              kept  |-> SelectSeq([i \in 1..n |-> i],
                           LAMBDA i : /\ DiffNormSq(data) > 0
                                      /\ \A j \in 1..n :
                                           GradFraction * AbsDiffV(data, i) > AbsDiffV(data, j))]

FitRows == {<<x, y, v>> : x \in 0..MaxCoord, y \in 0..1, v \in {0, 1, GradFraction}}

FitCalls ==
    { [fn |-> "fit_geometry_to_data", data |-> d] :
        d \in UNION {[1..n -> FitRows] : n \in 1..3} }

InitFit == call \in FitCalls /\ ret = NotDone /\ AtRest

FitGeometryToDataCall ==
    /\ call.fn = "fit_geometry_to_data"
    /\ ~ret.done
    /\ ret' = [done |-> TRUE, val |-> GradientFilter(call.data)]
    /\ UNCHANGED <<call, stage, field, fault, log, ls, ds, tr>>

NextFit == FitGeometryToDataCall

SpecFit == InitFit /\ [][NextFit]_vars

FitDone == call.fn = "fit_geometry_to_data" /\ ret.done

\* Row i passes the filter of the claim: its own gradient, |dv| over the
\* distance of its own pair, is more than a tenth of the gradient of every
\* pair (compared by their squares).
OwnGradientPasses(data, i) ==
    \A j \in 1..(Len(data) - 1) :
        GradFraction * GradFraction * AbsDiffV(data, i) * AbsDiffV(data, i) * StepSq(data, j)
            > AbsDiffV(data, j) * AbsDiffV(data, j) * StepSq(data, i)

\* C37: of a trace whose consecutive positions differ, fit_geometry_to_data
\* keeps exactly the rows (all but the last) whose own gradient is more than
\* a tenth of the largest gradient of the trace.
C37_FilterUsesPerPairDistance ==
    (/\ FitDone /\ ret.val.error = "none"
     /\ \A i \in 1..(Len(call.data) - 1) : StepSq(call.data, i) > 0) =>
        \A i \in 1..(Len(call.data) - 1) :
            (\E k \in 1..Len(ret.val.kept) : ret.val.kept[k] = i)
                <=> OwnGradientPasses(call.data, i)

(***************************************************************************)
(* helpers.dict_merge                                                      *)
(* Dictionaries are objects of a heap: heap[id] is a function from keys to *)
(* values, a value an atom [kind |-> "atom", v |-> n] or a reference       *)
(* [kind |-> "ref", id |-> id] to a dictionary of the heap.  The id of an  *)
(* object is the path under which the arguments first hold it.             *)
(***************************************************************************)
Keys == {"a", "b"}

\* for k, v in dict2.items(): the keys in the order of the loop
KeyOrder == <<"a", "b">>

IsRef(v) == v.kind = "ref"

\* dict1[k] = v
Put(d, k, v) == [x \in DOMAIN d \cup {k} |-> IF x = k THEN v ELSE d[x]]

RECURSIVE DictMerge(_, _, _)

\* A loop body that overwrites whatever dict1 holds.
MergeItemOverwrite(heap, d1, d2, k) == [heap EXCEPT ![d1] = Put(@, k, heap[d2][k])]

\* The body of the loop of dict_merge for the key k of dict2: the recursive
\* call when both values are dictionaries, the assignment of dict2's value
\* (the object itself, not a copy) otherwise.
MergeItem(heap, d1, d2, k) ==
    IF k \in DOMAIN heap[d1] /\ IsRef(heap[d1][k]) /\ IsRef(heap[d2][k])
    THEN DictMerge(heap, heap[d1][k].id, heap[d2][k].id)
    ELSE [heap EXCEPT ![d1] = Put(@, k, heap[d2][k])]

\* The loop over the keys ks that are left.
RECURSIVE MergeKeys(_, _, _, _)
MergeKeys(heap, d1, d2, ks) ==
    IF ks = <<>> THEN heap
    ELSE IF Head(ks) \notin DOMAIN heap[d2] THEN MergeKeys(heap, d1, d2, Tail(ks))
    ELSE MergeKeys(MergeItem(heap, d1, d2, Head(ks)), d1, d2, Tail(ks))

\* dict_merge(dict1, dict2): the heap afterwards.
DictMerge(heap, d1, d2) == MergeKeys(heap, d1, d2, KeyOrder)

\* The value an object of the heap stands for: its keys, with each reference
\* replaced by the value of the object it names.
RECURSIVE TreeOf(_, _)
TreeOf(heap, id) ==
    [k \in DOMAIN heap[id] |->
        IF IsRef(heap[id][k])
        THEN [kind |-> "dict", items |-> TreeOf(heap, heap[id][k].id)]
        ELSE heap[id][k]]

\* The objects reachable from id, id included.
RECURSIVE Reachable(_, _)
Reachable(heap, id) ==
    {id} \cup UNION { Reachable(heap, heap[id][k].id) :
                        k \in {x \in DOMAIN heap[id] : IsRef(heap[id][x])} }

\* The dictionaries given to dict_merge, as values: leaves v, nested up to
\* three deep under "a" and two deep under "b".
DictsOver(vals) == UNION { [S -> vals] : S \in SUBSET Keys }

Atom(v) == [kind |-> "atom", v |-> v]

AsDicts(ds0) == { [kind |-> "dict", items |-> d] : d \in ds0 }

Trees0(v) == DictsOver({Atom(v)})

Trees1(v) == DictsOver({Atom(v)} \cup AsDicts(Trees0(v)))

Trees2(v) ==
    { t \in UNION { [S -> {Atom(v)} \cup AsDicts(Trees1(v))] : S \in SUBSET Keys } :
        "b" \in DOMAIN t => t["b"] \in {Atom(v)} \cup AsDicts(Trees0(v)) }

\* The paths of the dictionaries of a tree held under the path p.
RECURSIVE DictPaths(_, _)
DictPaths(t, p) ==
    {p} \cup UNION { DictPaths(t[k].items, Append(p, k)) :
                       k \in {x \in DOMAIN t : t[x].kind = "dict"} }

\* The tree under the path p (p starts with the name of the root).
RECURSIVE SubTree(_, _)
SubTree(t, p) == IF Len(p) = 1 THEN t ELSE SubTree(t[p[2]].items, Tail(p))

\* The heap that holds the trees t1 and t2, each dictionary an object of its
\* own.
HeapOf(t1, t2) ==
    [id \in DictPaths(t1, <<"dict1">>) \cup DictPaths(t2, <<"dict2">>) |->
        LET t == SubTree(IF id[1] = "dict1" THEN t1 ELSE t2, id)
        IN  [k \in DOMAIN t |->
                IF t[k].kind = "dict" THEN [kind |-> "ref", id |-> Append(id, k)]
                ELSE t[k]]]

\* The heap with the two dictionaries under "a" and "b" of dict2 one and the
\* same object (a YAML alias), when both are dictionaries.
Shared(heap) ==
    LET d2 == heap[<<"dict2">>]
    IN  IF Keys \subseteq DOMAIN d2 /\ IsRef(d2["a"]) /\ IsRef(d2["b"])
        THEN [heap EXCEPT ![<<"dict2">>] = [@ EXCEPT !["b"] = d2["a"]]]
        ELSE heap

MergeCalls ==
    { [fn |-> "dict_merge", heap |-> h, shared |-> sh] :
        h \in { HeapOf(t1, t2) : t1 \in Trees2(0), t2 \in Trees2(1) },
        sh \in BOOLEAN }

InitMerge ==
    /\ \E c \in MergeCalls :
         call = [fn |-> "dict_merge", heap |-> IF c.shared THEN Shared(c.heap) ELSE c.heap]
    /\ ret = NotDone /\ AtRest

\* dict_merge(dict1, dict2), and the same call once more.
DictMergeCall ==
    /\ call.fn = "dict_merge"
    /\ ~ret.done
    /\ LET once == DictMerge(call.heap, <<"dict1">>, <<"dict2">>)
       IN  ret' = [done |-> TRUE,
                   val  |-> [once  |-> once,
                             twice |-> DictMerge(once, <<"dict1">>, <<"dict2">>)]]
    /\ UNCHANGED <<call, stage, field, fault, log, ls, ds, tr>>

NextMerge == DictMergeCall

SpecMerge == InitMerge /\ [][NextMerge]_vars

MergeDone == call.fn = "dict_merge" /\ ret.done

\* r is the overlay of t2 on t1: every key of t2 holds the overlay of the two
\* values when both are dictionaries and t2's value otherwise, every other
\* key of t1 holds t1's value, and there are no further keys.
RECURSIVE IsOverlay(_, _, _)
IsOverlay(r, t1, t2) ==
    /\ DOMAIN r = DOMAIN t1 \cup DOMAIN t2
    /\ \A k \in DOMAIN t2 :
         IF k \in DOMAIN t1 /\ t1[k].kind = "dict" /\ t2[k].kind = "dict"
         THEN r[k].kind = "dict" /\ IsOverlay(r[k].items, t1[k].items, t2[k].items)
         ELSE r[k] = t2[k]
    /\ \A k \in DOMAIN t1 \ DOMAIN t2 : r[k] = t1[k]

\* C38: after dict_merge(d1, d2) d1 is the recursive overlay of d2 on d1
\* (d2's value wins except where both hold dictionaries, keys of d1 absent
\* from d2 keep their values at every depth); no object reachable from d2
\* has changed; and merging d2 once more leaves every object as it is.
C38_DictMergeIsOverlay ==
    MergeDone =>
        LET h0 == call.heap
            h1 == ret.val.once
        IN  /\ IsOverlay(TreeOf(h1, <<"dict1">>), TreeOf(h0, <<"dict1">>),
                         TreeOf(h0, <<"dict2">>))
            /\ \A id \in Reachable(h0, <<"dict2">>) : h1[id] = h0[id]
            /\ ret.val.twice = h1

\* A merge that went into a nested dictionary of d1, kept a key of it that
\* d2 does not have, overwrote another, and took a dictionary of d2 whole.
C38_Witness ==
    /\ MergeDone
    /\ LET t1 == TreeOf(call.heap, <<"dict1">>)
           t2 == TreeOf(call.heap, <<"dict2">>)
           r  == TreeOf(ret.val.once, <<"dict1">>)
       IN  /\ Keys \subseteq DOMAIN t1 /\ Keys \subseteq DOMAIN t2
           /\ t1["a"].kind = "dict" /\ t2["a"].kind = "dict"
           /\ DOMAIN t1["a"].items = Keys /\ DOMAIN t2["a"].items = {"a"}
           /\ r["a"].items["b"] = Atom(0) /\ r["a"].items["a"] = Atom(1)
           /\ t1["b"].kind = "atom" /\ t2["b"].kind = "dict"
           /\ r["b"] = t2["b"]

(***************************************************************************)
(* domain_search as one thread that keeps running: the sweep of SpecSearch *)
(* with a step taken whenever one is possible.                             *)
(***************************************************************************)
InitSweep ==
    /\ InitSearch
    /\ stage.axes = 2 /\ ~stage.stalls
    /\ stage.speed = 1
    /\ ds.origin.shape = <<2>> /\ ds.detection_threshold = <<0, 1>>
    /\ ds.width = 2 /\ ds.height = 2

SpecSearchFair == InitSweep /\ [][NextSearch]_vars /\ WF_vars(NextSearch)

\* C21: with an ideal stage and one rectangular feature, once a sweep scan
\* has broken on the feature domain_search goes on to return: the feature is
\* traced and recorded, the sweep is resumed and reaches the end of its
\* waypoints.
C21_SweepResumesAndTerminates ==
    [](C4_Applies /\ BreakToHandle => <>(ds.pc = "returned"))

====
